---- MODULE Spec2Model ----
(***************************************************************************)
(* Slashing protector: the decision engine (protector.CheckAttestation,    *)
(* protector.CheckProposal, protector.History) over the per-validator      *)
(* connection pool (kvpool.Pool, kvpool.Conn).                             *)
(*                                                                         *)
(* A key is one (network, pubKey) pair, i.e. one connID and one database   *)
(* file.  Signing roots are small integers, 0 being the all-zero hash.     *)
(* The validator database (Prysm's kv.Store) is not part of the            *)
(* repository; its operations are modelled after section 4.1 of the        *)
(* specification, without the weak-subjectivity pruning of the library.    *)
(*                                                                         *)
(* The specifications share the state and the decision engine:             *)
(*   Spec     concurrent callers, each operation in its steps (Acquire,    *)
(*            open, rules, save, Release), store calls that may fail;      *)
(*   SpecSeq  a lone caller, one operation at a time, no failing store     *)
(*            call, for longer sequences of calls;                         *)
(*   SpecWide a lone caller submitting attestations over a wider range of  *)
(*            epochs;                                                      *)
(*   SpecKeys a lone caller working on several (network, pubKey) pairs;    *)
(*   SpecPool a lone caller that also releases a handle it does not hold,  *)
(*            closes the pool, and opens a new pool on the directory;      *)
(*   SpecLive three workers submitting attestations for one pair, no       *)
(*            cancellation, no failing store call, every worker that can   *)
(*            take a step eventually taking one;                           *)
(*   SpecCross two callers on two pairs, one of which may stop for ever    *)
(*            at any point, also while it holds a handle;                  *)
(*   SpecRet  a lone caller whose operations return through the deferred   *)
(*            release, with failing store calls, failing closes and nil    *)
(*            checkpoints in the attestation data;                         *)
(*   SpecHttp the HTTP client and server around the decision engine, with  *)
(*            requests and responses that may be changed or mixed up on    *)
(*            the wire;                                                    *)
(*   SpecOpen concurrent callers whose store may fail to open in Acquire   *)
(*            and fail to close in Release;                                *)
(*   SpecCtx  two callers on one pair, Release in its three steps, with    *)
(*            the request contexts and the lifetime context of the store;  *)
(*   SpecClose callers of CheckProposal beside Pool.Close and beside a     *)
(*            Conn.Release by a caller that has not acquired the handle.   *)
(***************************************************************************)
EXTENDS Integers, Sequences, FiniteSets, TLC

\* ------------------------------------------------------------------ bounds
MaxEpoch == 1      \* epochs are 0..MaxEpoch
MaxSlot == 1       \* slots are 0..MaxSlot
MaxCalls == 2      \* calls of the concurrent callers of Spec, in total
MaxSeqCalls == 3   \* calls of the one-at-a-time specification SpecSeq
MaxWideEpoch == 2  \* epochs of SpecWide are 0..MaxWideEpoch
MaxWideCalls == 2  \* calls of SpecWide
MaxKeyCalls == 2   \* calls of SpecKeys
MaxPoolCalls == 2  \* calls of SpecPool
MaxPools == 2      \* pools opened on the directory in SpecPool
MaxLiveCalls == 3  \* calls of the workers of SpecLive, in total
MaxCrossCalls == 2 \* calls of the callers of SpecCross, in total
MaxRetCalls == 2   \* calls of SpecRet
MaxHttpCalls == 2  \* calls of the HTTP client of SpecHttp
MaxOpenCalls == 2  \* calls of the callers of SpecOpen, in total
MaxCtxCalls == 2   \* calls of the callers of SpecCtx, in total
MaxCloseCalls == 2 \* calls of CheckProposal in SpecClose, in total

Epochs == 0..MaxEpoch
WideEpochs == 0..MaxWideEpoch
Slots == 0..MaxSlot
\* Signing roots: the all-zero root and two others (the code only compares
\* roots for equality and with the zero hash).
Roots == {0, 1, 2}
\* (network, pubKey) pairs and concurrent callers (request goroutines).
Keys == {"k1"}
\* Every pair of the model: k2 is another public key on the network of k1,
\* k3 is the public key of k1 on another network.
AllKeys == {"k1", "k2", "k3"}
Network(k) == IF k = "k3" THEN "prater" ELSE "mainnet"
PubKey(k) == IF k = "k2" THEN "b" ELSE "a"
Procs == {"p1", "p2"}
\* Every caller of the model; the third one works in SpecLive only.
AllProcs == {"p1", "p2", "p3"}

\* params.BeaconConfig().ZeroHash, the all-zero root
ZeroHash == 0

\* The arguments of a call (a caller outside any call has NoRequest), and the
\* results of a call before any is set.
NoRequest ==
  [op |-> "none", key |-> "k1", signingRoot |-> 0, source |-> 0, target |-> 0,
   slot |-> 0]
NoHistory == [Proposals |-> {}, Attestations |-> {}]
NoResult ==
  [check |-> "nil", err |-> "nil", history |-> NoHistory]

\* ------------------------------------------------- per-validator database
\* The empty database of a key that was never written.
Absent == [exists |-> FALSE, value |-> 0]
Present(v) == [exists |-> TRUE, value |-> v]

EmptyStore ==
  [ proposals      |-> <<>>,      \* slot -> signing root
    lowestProposal |-> Absent,
    signingRoots   |-> <<>>,      \* target epoch -> signing root
    attested       |-> {},        \* the recorded (source, target) pairs
    lowestSource   |-> Absent,
    lowestTarget   |-> Absent ]

\* kv.Store.LowestSignedSourceEpoch: (epoch, exists)
LowestSignedSourceEpoch(h) == h.lowestSource

\* kv.Store.LowestSignedTargetEpoch: (epoch, exists)
LowestSignedTargetEpoch(h) == h.lowestTarget

\* kv.Store.LowestSignedProposal: (slot, exists)
LowestSignedProposal(h) == h.lowestProposal

\* kv.Store.SigningRootAtTargetEpoch: the recorded root, the zero root if none
SigningRootAtTargetEpoch(h, target) ==
  IF target \in DOMAIN h.signingRoots THEN h.signingRoots[target] ELSE ZeroHash

\* kv.Store.ProposalHistoryForSlot: (root, exists)
ProposalHistoryForSlot(h, slot) ==
  IF slot \in DOMAIN h.proposals THEN Present(h.proposals[slot]) ELSE Absent

\* slashings.SigningRootsDiffer: an all-zero existing root always differs
SigningRootsDiffer(existing, new) == existing = ZeroHash \/ existing # new

\* slashings.IsSurround(a, b): a surrounds b
IsSurround(aSource, aTarget, bSource, bTarget) ==
  aSource < bSource /\ bTarget < aTarget

\* The recorded (source, target) pairs of a database: the attestation log
\* the surround checks read.
Recorded(h) == h.attested

\* kv.Store.CheckSlashableAttestation: the double vote at the target epoch
\* first, then surrounding, then surrounded; reads only.
CheckSlashableAttestation(h, signingRoot, source, target) ==
  IF /\ target \in DOMAIN h.signingRoots
     /\ SigningRootsDiffer(h.signingRoots[target], signingRoot)
  THEN "DoubleVote"
  ELSE IF \E st \in Recorded(h) : IsSurround(source, target, st[1], st[2])
  THEN "SurroundingVote"
  ELSE IF \E st \in Recorded(h) : IsSurround(st[1], st[2], source, target)
  THEN "SurroundedVote"
  ELSE "NotSlashable"

\* The lower of a recorded watermark and a new value (the first value if none).
Lowered(mark, v) ==
  IF ~mark.exists \/ v < mark.value THEN Present(v) ELSE mark

\* kv.Store.SaveAttestationForPubKey
SaveAttestationForPubKey(h, signingRoot, source, target) ==
  [ h EXCEPT
      !.signingRoots = [e \in DOMAIN h.signingRoots \cup {target} |->
                          IF e = target THEN signingRoot ELSE h.signingRoots[e]],
      !.attested = @ \cup {<< source, target >>},
      !.lowestSource = Lowered(@, source),
      !.lowestTarget = Lowered(@, target) ]

\* kv.Store.SaveProposalHistoryForSlot
SaveProposalHistoryForSlot(h, slot, signingRoot) ==
  [ h EXCEPT
      !.proposals = [s \in DOMAIN h.proposals \cup {slot} |->
                       IF s = slot THEN signingRoot ELSE h.proposals[s]],
      !.lowestProposal = Lowered(@, slot) ]

\* kv.Store.ProposalHistoryForPubKey: the recorded (slot, root) pairs
ProposalHistoryForPubKey(h) ==
  { <<s, h.proposals[s]>> : s \in DOMAIN h.proposals }

\* kv.Store.AttestationHistoryForPubKey: the recorded (source, target, root)
AttestationHistoryForPubKey(h) ==
  { <<st[1], st[2], SigningRootAtTargetEpoch(h, st[2])>> : st \in Recorded(h) }

\* ---------------------------------------------------------- decision engine
\* Faulty variants of the decision engine, one slip each, against which the
\* properties below are tested.
\* CheckAttestation treating a double vote reported by the store as safe.
AttestationVerdictDoubleVoteMissed(h, signingRoot, source, target) ==
  LET lowestSourceEpoch  == LowestSignedSourceEpoch(h)
      existingSigningRoot == SigningRootAtTargetEpoch(h, target)
      signingRootsDiffer == SigningRootsDiffer(existingSigningRoot, signingRoot)
      lowestTargetEpoch  == LowestSignedTargetEpoch(h)
      slashingKind       ==
        CheckSlashableAttestation(h, signingRoot, source, target)
  IN  IF lowestSourceEpoch.exists /\ source < lowestSourceEpoch.value
      THEN "LowestSourceEpoch"
      ELSE IF /\ signingRootsDiffer
              /\ lowestTargetEpoch.exists
              /\ target <= lowestTargetEpoch.value
      THEN "LowestTargetEpoch"
      ELSE IF slashingKind = "DoubleVote" THEN "NotSlashable"
      ELSE slashingKind

\* CheckAttestation treating a surround reported by the store as safe.
AttestationVerdictSurroundMissed(h, signingRoot, source, target) ==
  LET lowestSourceEpoch  == LowestSignedSourceEpoch(h)
      existingSigningRoot == SigningRootAtTargetEpoch(h, target)
      signingRootsDiffer == SigningRootsDiffer(existingSigningRoot, signingRoot)
      lowestTargetEpoch  == LowestSignedTargetEpoch(h)
      slashingKind       ==
        CheckSlashableAttestation(h, signingRoot, source, target)
  IN  IF lowestSourceEpoch.exists /\ source < lowestSourceEpoch.value
      THEN "LowestSourceEpoch"
      ELSE IF /\ signingRootsDiffer
              /\ lowestTargetEpoch.exists
              /\ target <= lowestTargetEpoch.value
      THEN "LowestTargetEpoch"
      ELSE IF slashingKind \in {"SurroundingVote", "SurroundedVote"}
      THEN "NotSlashable"
      ELSE slashingKind

\* CheckAttestation comparing the source epoch with <= instead of <.
AttestationVerdictLowestSourceInclusive(h, signingRoot, source, target) ==
  LET lowestSourceEpoch  == LowestSignedSourceEpoch(h)
      existingSigningRoot == SigningRootAtTargetEpoch(h, target)
      signingRootsDiffer == SigningRootsDiffer(existingSigningRoot, signingRoot)
      lowestTargetEpoch  == LowestSignedTargetEpoch(h)
      slashingKind       ==
        CheckSlashableAttestation(h, signingRoot, source, target)
  IN  IF lowestSourceEpoch.exists /\ source <= lowestSourceEpoch.value
      THEN "LowestSourceEpoch"
      ELSE IF /\ signingRootsDiffer
              /\ lowestTargetEpoch.exists
              /\ target <= lowestTargetEpoch.value
      THEN "LowestTargetEpoch"
      ELSE slashingKind

\* CheckAttestation comparing the source epoch, instead of the target epoch,
\* with the lowest signed target epoch.
AttestationVerdictSourceAgainstLowestTarget(h, signingRoot, source, target) ==
  LET lowestSourceEpoch  == LowestSignedSourceEpoch(h)
      existingSigningRoot == SigningRootAtTargetEpoch(h, target)
      signingRootsDiffer == SigningRootsDiffer(existingSigningRoot, signingRoot)
      lowestTargetEpoch  == LowestSignedTargetEpoch(h)
      slashingKind       ==
        CheckSlashableAttestation(h, signingRoot, source, target)
  IN  IF lowestSourceEpoch.exists /\ source < lowestSourceEpoch.value
      THEN "LowestSourceEpoch"
      ELSE IF /\ signingRootsDiffer
              /\ lowestTargetEpoch.exists
              /\ source <= lowestTargetEpoch.value
      THEN "LowestTargetEpoch"
      ELSE slashingKind

\* CheckAttestation comparing the target epoch with < instead of <=.
AttestationVerdictLowestTargetStrict(h, signingRoot, source, target) ==
  LET lowestSourceEpoch  == LowestSignedSourceEpoch(h)
      existingSigningRoot == SigningRootAtTargetEpoch(h, target)
      signingRootsDiffer == SigningRootsDiffer(existingSigningRoot, signingRoot)
      lowestTargetEpoch  == LowestSignedTargetEpoch(h)
      slashingKind       ==
        CheckSlashableAttestation(h, signingRoot, source, target)
  IN  IF lowestSourceEpoch.exists /\ source < lowestSourceEpoch.value
      THEN "LowestSourceEpoch"
      ELSE IF /\ signingRootsDiffer
              /\ lowestTargetEpoch.exists
              /\ target < lowestTargetEpoch.value
      THEN "LowestTargetEpoch"
      ELSE slashingKind

\* CheckAttestation asking the store for a double vote or a surround before
\* it looks at the two watermarks.
AttestationVerdictStoreFirst(h, signingRoot, source, target) ==
  LET lowestSourceEpoch  == LowestSignedSourceEpoch(h)
      existingSigningRoot == SigningRootAtTargetEpoch(h, target)
      signingRootsDiffer == SigningRootsDiffer(existingSigningRoot, signingRoot)
      lowestTargetEpoch  == LowestSignedTargetEpoch(h)
      slashingKind       ==
        CheckSlashableAttestation(h, signingRoot, source, target)
  IN  IF slashingKind # "NotSlashable"
      THEN slashingKind
      ELSE IF lowestSourceEpoch.exists /\ source < lowestSourceEpoch.value
      THEN "LowestSourceEpoch"
      ELSE IF /\ signingRootsDiffer
              /\ lowestTargetEpoch.exists
              /\ target <= lowestTargetEpoch.value
      THEN "LowestTargetEpoch"
      ELSE "NotSlashable"

\* CheckProposal whose signingRootIsDifferent lacks the comparison of the two
\* roots.
ProposalVerdictRootsNotCompared(h, signingRoot, slot) ==
  LET prev == ProposalHistoryForSlot(h, slot)
      prevSigningRoot == prev.value
      proposalAtSlotExists == prev.exists
      lowest == LowestSignedProposal(h)
      signingRootIsDifferent == prevSigningRoot = ZeroHash
  IN  IF proposalAtSlotExists /\ signingRootIsDifferent
      THEN "DoubleProposal"
      ELSE IF /\ lowest.exists
              /\ signingRootIsDifferent
              /\ lowest.value >= slot
      THEN "LowestSignedSlot"
      ELSE "NotSlashable"

\* CheckProposal whose lowest-signed-slot rule ignores the signing roots.
ProposalVerdictLowestSlotAnyRoot(h, signingRoot, slot) ==
  LET prev == ProposalHistoryForSlot(h, slot)
      prevSigningRoot == prev.value
      proposalAtSlotExists == prev.exists
      lowest == LowestSignedProposal(h)
      signingRootIsDifferent ==
        prevSigningRoot = ZeroHash \/ prevSigningRoot # signingRoot
  IN  IF proposalAtSlotExists /\ signingRootIsDifferent
      THEN "DoubleProposal"
      ELSE IF lowest.exists /\ lowest.value >= slot
      THEN "LowestSignedSlot"
      ELSE "NotSlashable"

\* CheckProposal testing the lowest signed slot before the proposal recorded
\* at the slot.
ProposalVerdictLowestSlotFirst(h, signingRoot, slot) ==
  LET prev == ProposalHistoryForSlot(h, slot)
      prevSigningRoot == prev.value
      proposalAtSlotExists == prev.exists
      lowest == LowestSignedProposal(h)
      signingRootIsDifferent ==
        prevSigningRoot = ZeroHash \/ prevSigningRoot # signingRoot
  IN  IF /\ lowest.exists
         /\ signingRootIsDifferent
         /\ lowest.value >= slot
      THEN "LowestSignedSlot"
      ELSE IF proposalAtSlotExists /\ signingRootIsDifferent
      THEN "DoubleProposal"
      ELSE "NotSlashable"

\* The rules without the refusal of a source epoch below the lowest signed
\* source epoch.
AttestationVerdictLowestSourceMissed(h, signingRoot, source, target) ==
  LET existingSigningRoot == SigningRootAtTargetEpoch(h, target)
      signingRootsDiffer == SigningRootsDiffer(existingSigningRoot, signingRoot)
      lowestTargetEpoch  == LowestSignedTargetEpoch(h)
      slashingKind       ==
        CheckSlashableAttestation(h, signingRoot, source, target)
  IN  IF /\ signingRootsDiffer
         /\ lowestTargetEpoch.exists
         /\ target <= lowestTargetEpoch.value
      THEN "LowestTargetEpoch"
      ELSE slashingKind

\* CheckProposal whose signingRootIsDifferent gives a recorded all-zero root
\* no special meaning.
ProposalVerdictZeroRootKnown(h, signingRoot, slot) ==
  LET prev == ProposalHistoryForSlot(h, slot)
      prevSigningRoot == prev.value
      proposalAtSlotExists == prev.exists
      lowest == LowestSignedProposal(h)
      signingRootIsDifferent ==
        ~ proposalAtSlotExists \/ prevSigningRoot # signingRoot
  IN  IF proposalAtSlotExists /\ signingRootIsDifferent
      THEN "DoubleProposal"
      ELSE IF /\ lowest.exists
              /\ signingRootIsDifferent
              /\ lowest.value >= slot
      THEN "LowestSignedSlot"
      ELSE "NotSlashable"

\* The verdict of CheckAttestation on database h, when no store call fails:
\* the reason of the first rule that fires, or NotSlashable.
AttestationVerdict(h, signingRoot, source, target) ==
  LET lowestSourceEpoch  == LowestSignedSourceEpoch(h)
      existingSigningRoot == SigningRootAtTargetEpoch(h, target)
      signingRootsDiffer == SigningRootsDiffer(existingSigningRoot, signingRoot)
      lowestTargetEpoch  == LowestSignedTargetEpoch(h)
      slashingKind       ==
        CheckSlashableAttestation(h, signingRoot, source, target)
  IN  IF lowestSourceEpoch.exists /\ source < lowestSourceEpoch.value
      THEN "LowestSourceEpoch"
      ELSE IF /\ signingRootsDiffer
              /\ lowestTargetEpoch.exists
              /\ target <= lowestTargetEpoch.value
      THEN "LowestTargetEpoch"
      ELSE slashingKind

\* The verdict of CheckProposal on database h, when no store call fails.
ProposalVerdict(h, signingRoot, slot) ==
  LET prev == ProposalHistoryForSlot(h, slot)
      prevSigningRoot == prev.value
      proposalAtSlotExists == prev.exists
      lowest == LowestSignedProposal(h)
      signingRootIsDifferent ==
        prevSigningRoot = ZeroHash \/ prevSigningRoot # signingRoot
  IN  IF proposalAtSlotExists /\ signingRootIsDifferent
      THEN "DoubleProposal"
      ELSE IF /\ lowest.exists
              /\ signingRootIsDifferent
              /\ lowest.value >= slot
      THEN "LowestSignedSlot"
      ELSE "NotSlashable"

\* A save that writes the values of the new message over the watermarks
\* instead of keeping the lower of the two.
SavedWatermarksOverwritten(h, r) ==
  IF r.op = "CheckAttestation"
  THEN [ SaveAttestationForPubKey(h, r.signingRoot, r.source, r.target)
           EXCEPT !.lowestSource = Present(r.source),
                  !.lowestTarget = Present(r.target) ]
  ELSE [ SaveProposalHistoryForSlot(h, r.slot, r.signingRoot)
           EXCEPT !.lowestProposal = Present(r.slot) ]

\* The database after an accepted message (the save step of the operation).
Saved(h, r) ==
  IF r.op = "CheckAttestation"
  THEN SaveAttestationForPubKey(h, r.signingRoot, r.source, r.target)
  ELSE SaveProposalHistoryForSlot(h, r.slot, r.signingRoot)

\* The verdict of a check request on database h.
Verdict(h, r) ==
  IF r.op = "CheckAttestation"
  THEN AttestationVerdict(h, r.signingRoot, r.source, r.target)
  ELSE ProposalVerdict(h, r.signingRoot, r.slot)

\* A History that leaves the attestations of the dump unfilled.
HistoryOfProposalsOnly(h) ==
  [ Proposals    |-> ProposalHistoryForPubKey(h),
    Attestations |-> {} ]

\* protector.History: the dump of a database
HistoryOf(h) ==
  [ Proposals    |-> ProposalHistoryForPubKey(h),
    Attestations |-> AttestationHistoryForPubKey(h) ]

\* ------------------------------------------------------- request envelope
\* The values of xxhash's Sum64, reduced to a small space so that two
\* requests can collide and a request can hash to zero.
HashSpace == 61

\* time.Now().UnixNano() of the client's CheckAttestation calls.
Timestamps == {1, 2}

\* The bytes of a public key and of a root (one byte stands for the 48 and
\* the 32).
KeyBytes(pubKey) == IF pubKey = "a" THEN << 10 >> ELSE << 11 >>
RootBytes(root) == << root >>

\* binary.LittleEndian.PutUint64: the eight bytes of v, lowest first (the
\* values of the model are below 2^24).
PutUint64(v) ==
  << v % 256, (v \div 256) % 256, (v \div 65536) % 256, 0, 0, 0, 0, 0 >>

\* The running state h of the digest after the bytes of a sequence from the
\* i-th on were written into it (the membership test has each state
\* computed before the next byte is taken).
RECURSIVE Digest(_, _, _)
Digest(h, bytes, i) ==
  IF i > Len(bytes) THEN h
  ELSE LET next == (h * 31 + bytes[i] + 7) % HashSpace
       IN  IF next \in 0..(HashSpace - 1)
           THEN Digest(next, bytes, i + 1)
           ELSE next

\* xxhash.Digest: Write of a byte sequence into the running state h.
Write(h, bytes) == Digest(h, bytes, 1)

\* writeUint64
writeUint64(h, v) == Write(h, PutUint64(v))

\* The request structs of the client, one shape for both: a proposal has no
\* Data, an attestation no Slot.  Source and Target are epochs, or
\* NilCheckpoint.
NoEnvelope ==
  [Timestamp |-> 0, PubKey |-> << >>, SigningRoot |-> << >>, Slot |-> 0,
   Source |-> 0, Target |-> 0]

\* A fingerprint that leaves the slot out.
checkProposalRequestHashNoSlot(r) ==
  Write(Write(writeUint64(0, r.Timestamp), r.PubKey), r.SigningRoot)

\* checkProposalRequest.Hash
checkProposalRequestHash(r) ==
  writeUint64(
    Write(Write(writeUint64(0, r.Timestamp), r.PubKey), r.SigningRoot),
    r.Slot)

\* checkAttestationRequest.Hash of a request with both checkpoints: the
\* data's slot, committee index, block root and checkpoint roots are zero in
\* every request of the model.
checkAttestationRequestHash(r) ==
  LET written   == Write(Write(writeUint64(0, r.Timestamp), r.PubKey),
                      r.SigningRoot)
      withData   == Write(writeUint64(writeUint64(written, 0), 0), RootBytes(0))
      withSource == writeUint64(Write(withData, RootBytes(0)), r.Source)
  IN  writeUint64(Write(withSource, RootBytes(0)), r.Target)

\* The fingerprint of section 4.4 of the specification, which the server
\* computes over the request it decoded and echoes in its response.
Fingerprint(op, r) ==
  IF op = "CheckProposal"
  THEN writeUint64(
         Write(Write(writeUint64(0, r.Timestamp), r.PubKey), r.SigningRoot),
         r.Slot)
  ELSE LET written   == Write(Write(writeUint64(0, r.Timestamp), r.PubKey),
                           r.SigningRoot)
           withData   == Write(writeUint64(writeUint64(written, 0), 0), RootBytes(0))
           withSource == writeUint64(Write(withData, RootBytes(0)), r.Source)
       IN  writeUint64(Write(withSource, RootBytes(0)), r.Target)

HexDigits ==
  << "0", "1", "2", "3", "4", "5", "6", "7", "8", "9", "a", "b", "c", "d",
     "e", "f" >>

\* hex.EncodeToString
RECURSIVE EncodeToString(_)
EncodeToString(bytes) ==
  IF bytes = << >> THEN ""
  ELSE HexDigits[(Head(bytes) \div 16) + 1] \o HexDigits[(Head(bytes) % 16) + 1]
       \o EncodeToString(Tail(bytes))

\* The value of a hexadecimal digit, 16 for any other character.
HexValue(c) ==
  IF \E i \in 1..16 : HexDigits[i] = c
  THEN (CHOOSE i \in 1..16 : HexDigits[i] = c) - 1
  ELSE 16

\* hex.DecodeString fails on an odd length and on a character that is no
\* hexadecimal digit.
DecodeFails(s) ==
  \/ Len(s) % 2 = 1
  \/ \E i \in 1..Len(s) : HexValue(SubSeq(s, i, i)) = 16

\* hex.DecodeString, on a string it accepts.
DecodeString(s) ==
  [i \in 1..(Len(s) \div 2) |->
     16 * HexValue(SubSeq(s, 2 * i - 1, 2 * i - 1))
       + HexValue(SubSeq(s, 2 * i, 2 * i))]

\* strings.TrimPrefix
TrimPrefix(s, prefix) ==
  IF Len(s) >= Len(prefix) /\ SubSeq(s, 1, Len(prefix)) = prefix
  THEN SubSeq(s, Len(prefix) + 1, Len(s))
  ELSE s

\* jsonPubKey.MarshalJSON, jsonRoot.MarshalJSON
MarshalJSON(bytes) == "0x" \o EncodeToString(bytes)

\* jsonPubKey.UnmarshalJSON, jsonRoot.UnmarshalJSON, on a string that
\* decodes.
UnmarshalJSON(s) == DecodeString(TrimPrefix(s, "0x"))

\* The JSON body of a request: the byte arrays as 0x-prefixed hexadecimal
\* text, the numbers as they are.
NoBody ==
  [timestamp |-> 0, pub_key |-> "", signing_root |-> "", block |-> 0,
   source |-> 0, target |-> 0]

\* BodyJSON(req)
BodyJSON(r) ==
  [NoBody EXCEPT !.timestamp = r.Timestamp,
                 !.pub_key = MarshalJSON(r.PubKey),
                 !.signing_root = MarshalJSON(r.SigningRoot),
                 !.block = r.Slot,
                 !.source = r.Source,
                 !.target = r.Target]

\* json.NewDecoder(r.Body).Decode(&request) fails.
DecodeError(body) ==
  \/ DecodeFails(TrimPrefix(body.pub_key, "0x"))
  \/ DecodeFails(TrimPrefix(body.signing_root, "0x"))

\* json.NewDecoder(r.Body).Decode(&request), on a body that decodes.
Decode(body) ==
  [NoEnvelope EXCEPT !.Timestamp = body.timestamp,
                     !.PubKey = UnmarshalJSON(body.pub_key),
                     !.SigningRoot = UnmarshalJSON(body.signing_root),
                     !.Slot = body.block,
                     !.Source = body.source,
                     !.Target = body.target]

\* checkResponse: Hash, Check (a verdict, or "nil"), StatusCode, Error.
NoResponse == [hash |-> 0, check |-> "nil", status_code |-> 0, error |-> ""]

\* What the client returned: (check, err).
NoOut == [check |-> "nil", err |-> "nil"]

\* The client outside any call, nothing on the wire.
NoRpc ==
  [stage |-> "idle", op |-> "none", network |-> "none",
   request |-> NoEnvelope, hash |-> 0, body |-> NoBody, resp |-> NoResponse,
   corrupted |-> FALSE, earlier |-> NoResponse, calls |-> 0, out |-> NoOut]

\* ------------------------------------------------------------------- state
\* No context exists yet: no handle has a lifetime context, no store a
\* worker, and no request context is cancelled.
NoLife ==
  [ ctx     |-> [k \in AllKeys |-> "none"],
    boundTo |-> [k \in AllKeys |-> "none"],
    worker  |-> [k \in AllKeys |-> "none"],
    request |-> [p \in AllProcs |-> "live"] ]

VARIABLES
  db,          \* key -> the database file of the key (survives close/open)
  conn,        \* Pool.conn: the keys that have a Conn in the pool map
  semCur,      \* key -> permits taken of the Conn's semaphore
  semWaiters,  \* key -> the semaphore's FIFO list of waiting callers
  store,       \* key -> Conn.Store: "nil", "open", or "closeFailed"
  pc,          \* caller -> where it is in its operation
  req,         \* caller -> the arguments of its current call
  ret,         \* caller -> the named results (check, err) of its call
  snap,        \* caller -> the database when it was granted the permit
  seen,        \* caller -> requests accepted on its key during its call
  accepted,    \* key -> the requests that returned a NotSlashable check
  serial,      \* key -> the database of the one-at-a-time replay
  nCalls,      \* calls started so far
  pools,       \* the pools opened on the directory so far (kvpool.New),
               \* each with the number of calls started before it
  rpc,         \* the HTTP client's call, the message on the wire, and the
               \* result the client returned
  poolMu,      \* Pool.poolMu: "free", or the caller that has locked it
  life         \* the contexts: per key the lifetime context of the handle
               \* (Conn.cancelStoreCtx), the context the store was opened
               \* with and its background worker; per caller the request
               \* context

vars == << db, conn, semCur, semWaiters, store, pc, req, ret, snap, seen,
           accepted, serial, nCalls, pools, rpc, poolMu, life >>

\* A semaphore built with two permits instead of one.
SemSizeTwo == 1 + 1

\* semaphore.NewWeighted(1)
SemSize == 1

Init ==
  /\ db = [k \in AllKeys |-> EmptyStore]
  /\ conn = {}
  /\ semCur = [k \in AllKeys |-> 0]
  /\ semWaiters = [k \in AllKeys |-> <<>>]
  /\ store = [k \in AllKeys |-> "nil"]
  /\ pc = [p \in AllProcs |-> "idle"]
  /\ req = [p \in AllProcs |-> NoRequest]
  /\ ret = [p \in AllProcs |-> NoResult]
  /\ snap = [p \in AllProcs |-> EmptyStore]
  /\ seen = [p \in AllProcs |-> {}]
  /\ accepted = [k \in AllKeys |-> {}]
  /\ serial = [k \in AllKeys |-> EmptyStore]
  /\ nCalls = 0
  /\ pools = << 0 >>
  /\ rpc = NoRpc
  /\ poolMu = "free"
  /\ life = NoLife

\* The callers inside an operation.
InFlight == { p \in AllProcs : pc[p] # "idle" }

\* ------------------------------------------------------------------- calls
\* A caller enters CheckAttestation, CheckProposal or History for a key:
\* Pool.Acquire begins with getOrCreate, which puts the key's Conn in the pool
\* map under the pool mutex.  The other arguments are not read before the
\* first store read, and are drawn there.
Enter(p, op, k) ==
  /\ pc[p] = "idle"
  /\ nCalls' = nCalls + 1
  /\ req' = [req EXCEPT ![p] = [NoRequest EXCEPT !.op = op, !.key = k]]
  /\ ret' = [ret EXCEPT ![p] = NoResult]
  /\ conn' = conn \cup {k}
  /\ pc' = [pc EXCEPT ![p] = "acquire"]
  /\ UNCHANGED << poolMu, life, rpc, pools, db, semCur, semWaiters, store, snap, seen, accepted,
                  serial >>

\* A call of one of the callers of Spec.
Call(p, op, k) == nCalls < MaxCalls /\ Enter(p, op, k)

CallCheckAttestation(p) == \E k \in Keys : Call(p, "CheckAttestation", k)

CallCheckProposal(p) == \E k \in Keys : Call(p, "CheckProposal", k)

CallHistory(p) == \E k \in Keys : Call(p, "History", k)

\* -------------------------------------------------------------- kvpool.Conn
\* A fast path that does not count the permits taken.
SemFreeUncounted(k) == semWaiters[k] = <<>>

\* A fast path that asks for every semaphore of the pool to be free, as if
\* one lock were held across the pairs.
SemFreePoolWide(k) ==
  \A j \in AllKeys : SemSize - semCur[j] >= 1 /\ semWaiters[j] = <<>>

\* semaphore.Weighted.Acquire, fast path: a permit is free and nobody waits.
SemFree(k) == SemSize - semCur[k] >= 1 /\ semWaiters[k] = <<>>

\* A release that takes the permit back and wakes no waiter.
AfterSemReleaseNoWakeup(p, k, h) ==
  /\ semCur' = [semCur EXCEPT ![k] = @ - 1]
  /\ semWaiters' = semWaiters
  /\ pc' = [pc EXCEPT ![p] = "idle"]
  /\ snap' = [snap EXCEPT ![p] = EmptyStore]
  /\ req' = [req EXCEPT ![p] = NoRequest]
  /\ ret' = [ret EXCEPT ![p] = NoResult]

\* A release that hands the permit to the waiter that came last.
AfterSemReleaseLastWaiter(p, k, h) ==
  LET moved == [pc EXCEPT ![p] = "idle"]
      grant == semWaiters[k] # <<>> /\ SemSize - (semCur[k] - 1) >= 1
      n     == Len(semWaiters[k])
      w     == semWaiters[k][n]
  IN  /\ semCur' = [semCur EXCEPT ![k] = IF grant THEN @ ELSE @ - 1]
      /\ semWaiters' = [semWaiters EXCEPT ![k] =
                          IF grant THEN SubSeq(@, 1, n - 1) ELSE @]
      /\ pc' = IF grant THEN [moved EXCEPT ![w] = "NewKVStore"] ELSE moved
      /\ snap' = IF grant
                 THEN [snap EXCEPT ![p] = EmptyStore, ![w] = h]
                 ELSE [snap EXCEPT ![p] = EmptyStore]
      /\ req' = [req EXCEPT ![p] = NoRequest]
      /\ ret' = [ret EXCEPT ![p] = NoResult]

\* The state of the key's semaphore and of every caller once caller p has
\* left its operation and the semaphore has been released by one permit:
\* semaphore.Weighted.Release hands the permit to the first waiter, if it
\* fits (h is the key's database at that time).
AfterSemRelease(p, k, h) ==
  LET moved == [pc EXCEPT ![p] = "idle"]
      grant == semWaiters[k] # <<>> /\ SemSize - (semCur[k] - 1) >= 1
      w     == Head(semWaiters[k])
  IN  /\ semCur' = [semCur EXCEPT ![k] = IF grant THEN @ ELSE @ - 1]
      /\ semWaiters' = [semWaiters EXCEPT ![k] = IF grant THEN Tail(@) ELSE @]
      /\ pc' = IF grant THEN [moved EXCEPT ![w] = "NewKVStore"] ELSE moved
      /\ snap' = IF grant
                 THEN [snap EXCEPT ![p] = EmptyStore, ![w] = h]
                 ELSE [snap EXCEPT ![p] = EmptyStore]
      /\ req' = [req EXCEPT ![p] = NoRequest]
      /\ ret' = [ret EXCEPT ![p] = NoResult]

\* An acquire that goes on without the permit when the permit is taken.
SemAcquireNoQueue(p) ==
  LET k == req[p].key IN
  /\ pc[p] = "acquire"
  /\ semCur' = [semCur EXCEPT ![k] = @ + 1]
  /\ pc' = [pc EXCEPT ![p] = "NewKVStore"]
  /\ snap' = [snap EXCEPT ![p] = db[k]]
  /\ UNCHANGED << poolMu, life, rpc, pools, db, conn, semWaiters, store, req, ret, seen, accepted,
                  serial, nCalls >>

\* Conn.acquire, c.semaphore.Acquire(ctx, 1): take the permit, or queue up.
SemAcquire(p) ==
  LET k == req[p].key IN
  /\ pc[p] = "acquire"
  /\ IF SemFree(k)
     THEN /\ semCur' = [semCur EXCEPT ![k] = @ + 1]
          /\ pc' = [pc EXCEPT ![p] = "NewKVStore"]
          /\ snap' = [snap EXCEPT ![p] = db[k]]
          /\ UNCHANGED semWaiters
     ELSE /\ semWaiters' = [semWaiters EXCEPT ![k] = Append(@, p)]
          /\ pc' = [pc EXCEPT ![p] = "waiting"]
          /\ UNCHANGED << semCur, snap >>
  /\ UNCHANGED << poolMu, life, rpc, pools, db, conn, store, req, ret, seen, accepted,
                  serial, nCalls >>

\* A cancelled Acquire that returns its error and stays in the queue of
\* waiters.
CtxDoneLeftInQueue(p) ==
  /\ pc[p] = "waiting"
  /\ ret' = [ret EXCEPT ![p] = [NoResult EXCEPT !.err = "kvpool.Acquire"]]
  /\ pc' = [pc EXCEPT ![p] = "idle"]
  /\ req' = [req EXCEPT ![p] = NoRequest]
  /\ seen' = [seen EXCEPT ![p] = {}]
  /\ UNCHANGED << poolMu, life, rpc, pools, db, conn, semCur, semWaiters, store, snap, accepted,
                  serial, nCalls >>

\* The caller's context is cancelled while it waits for the permit: the
\* waiter leaves the queue, Acquire fails and the operation returns
\* (nil, "kvpool.Acquire: ...") without a handle.  The caller has that result
\* until its next call.
CtxDone(p) ==
  LET k == req[p].key IN
  /\ pc[p] = "waiting"
  /\ semWaiters' = [semWaiters EXCEPT ![k] = SelectSeq(@, LAMBDA q : q # p)]
  /\ ret' = [ret EXCEPT ![p] = [NoResult EXCEPT !.err = "kvpool.Acquire"]]
  /\ pc' = [pc EXCEPT ![p] = "idle"]
  /\ req' = [req EXCEPT ![p] = NoRequest]
  /\ seen' = [seen EXCEPT ![p] = {}]
  /\ UNCHANGED << poolMu, life, rpc, pools, db, conn, semCur, store, snap, accepted,
                  serial, nCalls >>

\* Conn.acquire, kv.NewKVStore: the store opens and the caller holds the
\* handle, or the open fails, the deferred function gives the permit back
\* and the operation returns (nil, "kvpool.Acquire: ...").
NewKVStore(p) ==
  LET k == req[p].key IN
  /\ pc[p] = "NewKVStore"
  /\ \/ /\ store' = [store EXCEPT ![k] = "open"]
        /\ pc' = [pc EXCEPT ![p] = "check"]
        /\ UNCHANGED << semCur, semWaiters, req, ret, snap, seen >>
     \/ /\ seen' = [seen EXCEPT ![p] = {}]
        /\ AfterSemRelease(p, k, db[k])
        /\ UNCHANGED store
  /\ UNCHANGED << poolMu, life, rpc, pools, db, conn, accepted, serial, nCalls >>

\* ------------------------------------------------------ protector operations
\* An operation that saves the message before it evaluates the rules.
CheckSavingFirst(p, r) ==
  LET k == r.key
      v == Verdict(db[k], r)
  IN
  /\ pc[p] = "check"
  /\ req' = [req EXCEPT ![p] = r]
  /\ \/ /\ v # "NotSlashable"
        /\ db' = [db EXCEPT ![k] = Saved(@, r)]
        /\ ret' = [ret EXCEPT ![p].check = v]
        /\ pc' = [pc EXCEPT ![p] = "Release"]
     \/ /\ v = "NotSlashable"
        /\ UNCHANGED << db, ret >>
        /\ pc' = [pc EXCEPT ![p] = "save"]
     \/ /\ ret' = [ret EXCEPT ![p].err = "store"]
        /\ UNCHANGED db
        /\ pc' = [pc EXCEPT ![p] = "Release"]
  /\ UNCHANGED << poolMu, life, rpc, pools, conn, semCur, semWaiters, store, snap, seen, accepted,
                  serial, nCalls >>

\* CheckAttestation / CheckProposal between Acquire and the save: the store
\* reads and the rules, on request r.  A failing read returns (nil, err); a
\* rule that fires returns (slashable(reason), nil); otherwise the operation
\* goes on to save.
Check(p, r) ==
  LET k == r.key
      v == Verdict(db[k], r)
  IN
  /\ pc[p] = "check"
  /\ req' = [req EXCEPT ![p] = r]
  /\ \/ /\ v # "NotSlashable"
        /\ ret' = [ret EXCEPT ![p].check = v]
        /\ pc' = [pc EXCEPT ![p] = "Release"]
     \/ /\ v = "NotSlashable"
        /\ ret' = ret
        /\ pc' = [pc EXCEPT ![p] = "save"]
     \/ /\ ret' = [ret EXCEPT ![p].err = "store"]
        /\ pc' = [pc EXCEPT ![p] = "Release"]
  /\ UNCHANGED << poolMu, life, rpc, pools, db, conn, semCur, semWaiters, store, snap, seen,
                  accepted, serial, nCalls >>

CheckAttestation(p) ==
  /\ req[p].op = "CheckAttestation"
  /\ \E root \in Roots, source \in Epochs, target \in Epochs :
       Check(p, [req[p] EXCEPT !.signingRoot = root, !.source = source,
                               !.target = target])

CheckProposal(p) ==
  /\ req[p].op = "CheckProposal"
  /\ \E root \in Roots, slot \in Slots :
       Check(p, [req[p] EXCEPT !.signingRoot = root, !.slot = slot])

\* A save whose failure is not looked at: the operation returns
\* (notSlashable(), nil) whether or not the record was committed.
SaveErrorIgnored(p) ==
  LET k == req[p].key IN
  /\ pc[p] = "save"
  /\ \/ db' = [db EXCEPT ![k] = Saved(@, req[p])]
     \/ UNCHANGED db
  /\ ret' = [ret EXCEPT ![p].check = "NotSlashable"]
  /\ pc' = [pc EXCEPT ![p] = "Release"]
  /\ UNCHANGED << poolMu, life, rpc, pools, conn, semCur, semWaiters, store, req, snap, seen,
                  accepted, serial, nCalls >>

\* SaveAttestationForPubKey / SaveProposalHistoryForSlot and the return that
\* follows: (notSlashable(), nil), or (nil, err) when the save fails and
\* nothing is committed.
Save(p) ==
  LET k == req[p].key IN
  /\ pc[p] = "save"
  /\ \/ /\ db' = [db EXCEPT ![k] = Saved(@, req[p])]
        /\ ret' = [ret EXCEPT ![p].check = "NotSlashable"]
     \/ /\ ret' = [ret EXCEPT ![p].err = "save"]
        /\ UNCHANGED db
  /\ pc' = [pc EXCEPT ![p] = "Release"]
  /\ UNCHANGED << poolMu, life, rpc, pools, conn, semCur, semWaiters, store, req, snap, seen,
                  accepted, serial, nCalls >>

\* protector.History between Acquire and the deferred release: the two dumps,
\* or (nil, err) when a read fails.
History(p) ==
  LET k == req[p].key IN
  /\ pc[p] = "check"
  /\ req[p].op = "History"
  /\ \/ ret' = [ret EXCEPT ![p].history = HistoryOf(db[k]),
                           ![p].check = "History"]
     \/ ret' = [ret EXCEPT ![p].err = "store"]
  /\ pc' = [pc EXCEPT ![p] = "Release"]
  /\ UNCHANGED << poolMu, life, rpc, pools, db, conn, semCur, semWaiters, store, req, snap, seen,
                  accepted, serial, nCalls >>

\* The database of the one-at-a-time replay after a call that ran with the
\* same store failures: a check is applied when its verdict on the replay's
\* database is NotSlashable and no store call of it failed.
Replayed(h, r, result) ==
  IF /\ r.op \in {"CheckAttestation", "CheckProposal"}
     /\ result.err = "nil"
     /\ Verdict(h, r) = "NotSlashable"
  THEN Saved(h, r)
  ELSE h

\* The deferred p.release(err, conn), i.e. Conn.Release, and the return of
\* the operation: the store is closed and set to nil (or the close fails and
\* Release returns early), and the permit is released on either path.
Release(p) ==
  LET k == req[p].key IN
  /\ pc[p] = "Release"
  /\ \/ store' = [store EXCEPT ![k] = "nil"]
     \/ store' = [store EXCEPT ![k] = "closeFailed"]
  /\ accepted' = [accepted EXCEPT ![k] =
                    IF ret[p].check = "NotSlashable"
                    THEN @ \cup {req[p]} ELSE @]
  /\ seen' = [q \in AllProcs |->
                IF q = p THEN {}
                ELSE IF /\ q \in InFlight
                        /\ req[q].key = k
                        /\ ret[p].check = "NotSlashable"
                THEN seen[q] \cup {req[p]}
                ELSE seen[q]]
  /\ serial' = [serial EXCEPT ![k] = Replayed(@, req[p], ret[p])]
  /\ AfterSemRelease(p, k, db[k])
  /\ UNCHANGED << poolMu, life, rpc, pools, db, conn, nCalls >>

Next ==
  \E p \in Procs :
    \/ CallCheckAttestation(p)
    \/ CallCheckProposal(p)
    \/ CallHistory(p)
    \/ SemAcquire(p)
    \/ CtxDone(p)
    \/ NewKVStore(p)
    \/ CheckAttestation(p)
    \/ CheckProposal(p)
    \/ Save(p)
    \/ History(p)
    \/ Release(p)

Spec == Init /\ [][Next]_vars

\* ------------------------------------------ one call at a time, no failure
\* The caller of the one-at-a-time specification.
Lone == "p1"

\* A lone caller's operation that saves the message whatever the verdict.
ServeCheckSavingAll(r) ==
  LET k == r.key
      v == Verdict(db[k], r)
  IN
  /\ pc[Lone] = "idle"
  /\ nCalls < MaxSeqCalls
  /\ nCalls' = nCalls + 1
  /\ conn' = conn \cup {k}
  /\ semCur' = [semCur EXCEPT ![k] = @ + 1]
  /\ store' = [store EXCEPT ![k] = "open"]
  /\ snap' = [snap EXCEPT ![Lone] = db[k]]
  /\ req' = [req EXCEPT ![Lone] = r]
  /\ db' = [db EXCEPT ![k] = Saved(@, r)]
  /\ ret' = [ret EXCEPT ![Lone].check = v]
  /\ pc' = [pc EXCEPT ![Lone] = "Release"]
  /\ UNCHANGED << poolMu, life, rpc, pools, semWaiters, seen, accepted, serial >>

\* A pool whose Conns all open the database file of one pair.
ServeCheckOneFile(r) ==
  LET k == r.key
      f == "k1"
      v == Verdict(db[f], r)
  IN
  /\ pc[Lone] = "idle"
  /\ nCalls < MaxSeqCalls
  /\ nCalls' = nCalls + 1
  /\ conn' = conn \cup {k}
  /\ semCur' = [semCur EXCEPT ![k] = @ + 1]
  /\ store' = [store EXCEPT ![k] = "open"]
  /\ snap' = [snap EXCEPT ![Lone] = db[f]]
  /\ req' = [req EXCEPT ![Lone] = r]
  /\ db' = [db EXCEPT ![f] = IF v = "NotSlashable" THEN Saved(@, r) ELSE @]
  /\ ret' = [ret EXCEPT ![Lone].check = v]
  /\ pc' = [pc EXCEPT ![Lone] = "Release"]
  /\ UNCHANGED << poolMu, life, rpc, pools, semWaiters, seen, accepted, serial >>

\* CheckAttestation or CheckProposal of a lone caller, from the call to the
\* return statement, when no store call fails: Acquire (the permit is free),
\* the rules on request r, and the save on a NotSlashable verdict.
ServeCheck(r) ==
  LET k == r.key
      v == Verdict(db[k], r)
  IN
  /\ pc[Lone] = "idle"
  /\ nCalls < MaxSeqCalls
  /\ nCalls' = nCalls + 1
  /\ conn' = conn \cup {k}
  /\ semCur' = [semCur EXCEPT ![k] = @ + 1]
  /\ store' = [store EXCEPT ![k] = "open"]
  /\ snap' = [snap EXCEPT ![Lone] = db[k]]
  /\ req' = [req EXCEPT ![Lone] = r]
  /\ db' = [db EXCEPT ![k] = IF v = "NotSlashable" THEN Saved(@, r) ELSE @]
  /\ ret' = [ret EXCEPT ![Lone].check = v]
  /\ pc' = [pc EXCEPT ![Lone] = "Release"]
  /\ UNCHANGED << poolMu, life, rpc, pools, semWaiters, seen, accepted, serial >>

ServeCheckAttestation ==
  \E k \in Keys, root \in Roots, source \in Epochs, target \in Epochs :
    ServeCheck([op |-> "CheckAttestation", key |-> k, signingRoot |-> root,
                source |-> source, target |-> target, slot |-> 0])

ServeCheckProposal ==
  \E k \in Keys, root \in Roots, slot \in Slots :
    ServeCheck([op |-> "CheckProposal", key |-> k, signingRoot |-> root,
                source |-> 0, target |-> 0, slot |-> slot])

\* The deferred release of the lone caller's call when the close succeeds,
\* and the return.
ServeRelease ==
  LET k == req[Lone].key IN
  /\ pc[Lone] = "Release"
  /\ semWaiters[k] = <<>>
  /\ store' = [store EXCEPT ![k] = "nil"]
  /\ accepted' = [accepted EXCEPT ![k] =
                    IF ret[Lone].check = "NotSlashable"
                    THEN @ \cup {req[Lone]} ELSE @]
  /\ serial' = [serial EXCEPT ![k] = Replayed(@, req[Lone], ret[Lone])]
  /\ AfterSemRelease(Lone, k, db[k])
  /\ UNCHANGED << poolMu, life, rpc, pools, db, conn, seen, nCalls >>

NextSeq == ServeCheckAttestation \/ ServeCheckProposal \/ ServeRelease

SpecSeq == Init /\ [][NextSeq]_vars

\* ------------------------------- one call at a time, a wider range of epochs
\* CheckAttestation of a lone caller with epochs drawn from 0..MaxWideEpoch.
ServeWideAttestation ==
  /\ nCalls < MaxWideCalls
  /\ \E k \in Keys, root \in Roots, source \in WideEpochs,
        target \in WideEpochs :
       ServeCheck([op |-> "CheckAttestation", key |-> k, signingRoot |-> root,
                   source |-> source, target |-> target, slot |-> 0])

NextWide == ServeWideAttestation \/ ServeRelease

SpecWide == Init /\ [][NextWide]_vars

\* ------------------------------------- one call at a time, on several pairs
\* The signing roots of SpecKeys: the all-zero root and another.
KeyRoots == {ZeroHash, 1}

ServeKeyAttestation ==
  /\ nCalls < MaxKeyCalls
  /\ \E k \in AllKeys, root \in KeyRoots, source \in Epochs,
        target \in Epochs :
       ServeCheck([op |-> "CheckAttestation", key |-> k, signingRoot |-> root,
                   source |-> source, target |-> target, slot |-> 0])

ServeKeyProposal ==
  /\ nCalls < MaxKeyCalls
  /\ \E k \in AllKeys, root \in KeyRoots, slot \in Slots :
       ServeCheck([op |-> "CheckProposal", key |-> k, signingRoot |-> root,
                   source |-> 0, target |-> 0, slot |-> slot])

NextKeys == ServeKeyAttestation \/ ServeKeyProposal \/ ServeRelease

SpecKeys == Init /\ [][NextKeys]_vars

\* ------------------------------------------------ the life of the pool
ServePoolAttestation == nCalls < MaxPoolCalls /\ ServeCheckAttestation

ServePoolProposal == nCalls < MaxPoolCalls /\ ServeCheckProposal

\* semaphore.Weighted.Release(1) panics ("semaphore: released more than
\* held") when no permit of the key's semaphore is taken.
SemReleasePanics(k) == semCur[k] - 1 < 0

\* Conn.Release on the handle of key k while its store is nil (the handle was
\* released, or never acquired): the function sets its result to the
\* "connection not acquired" error, then the deferred c.semaphore.Release(1)
\* runs: it panics when no permit is taken, and otherwise gives back a permit
\* the caller does not hold.
ConnReleaseUnacquired(k) ==
  /\ pc[Lone] = "idle"
  /\ k \in conn
  /\ store[k] = "nil"
  /\ req' = [req EXCEPT ![Lone] = [NoRequest EXCEPT !.op = "Release", !.key = k]]
  /\ IF SemReleasePanics(k)
     THEN /\ pc' = [pc EXCEPT ![Lone] = "panic"]
          /\ ret' = [ret EXCEPT ![Lone].err = "released more than held"]
          /\ UNCHANGED semCur
     ELSE /\ pc' = [pc EXCEPT ![Lone] = "returned"]
          /\ ret' = [ret EXCEPT ![Lone].err = "connection not acquired"]
          /\ semCur' = [semCur EXCEPT ![k] = @ - 1]
  /\ UNCHANGED << poolMu, life, rpc, pools, db, conn, semWaiters, store, snap, seen, accepted,
                  serial, nCalls >>

ReleaseUnacquired == \E k \in AllKeys : ConnReleaseUnacquired(k)

\* Pool.AcquiredConns: the handles of the pool map whose Store is not nil.
AcquiredConns == Cardinality({ k \in conn : store[k] # "nil" })

\* Pool.Close, called while no handle is outstanding: it calls Release on
\* every Conn of the pool map.  With an empty map it resets the map and
\* returns nil.  Otherwise the Release of the first Conn of the iteration
\* runs its deferred c.semaphore.Release(1) with no permit taken, and panics.
PoolClose ==
  /\ pc[Lone] = "idle"
  /\ \A k \in conn : semCur[k] = 0 /\ semWaiters[k] = <<>>
  /\ req' = [req EXCEPT ![Lone] = [NoRequest EXCEPT !.op = "Close"]]
  /\ IF \E k \in conn : SemReleasePanics(k)
     THEN /\ pc' = [pc EXCEPT ![Lone] = "panic"]
          /\ ret' = [ret EXCEPT ![Lone].err = "released more than held"]
          /\ UNCHANGED conn
     ELSE /\ pc' = [pc EXCEPT ![Lone] = "returned"]
          /\ ret' = [ret EXCEPT ![Lone].err = "nil"]
          /\ conn' = {}
  /\ UNCHANGED << poolMu, life, rpc, pools, db, semCur, semWaiters, store, snap, seen, accepted,
                  serial, nCalls >>

\* A new pool that finds none of the database files of the pool before it.
NewOnEmptyDir ==
  /\ pc[Lone] \in {"returned", "panic"}
  /\ Len(pools) < MaxPools
  /\ pools' = Append(pools, nCalls)
  /\ conn' = {}
  /\ semCur' = [k \in AllKeys |-> 0]
  /\ semWaiters' = [k \in AllKeys |-> <<>>]
  /\ store' = [k \in AllKeys |-> "nil"]
  /\ pc' = [pc EXCEPT ![Lone] = "idle"]
  /\ req' = [req EXCEPT ![Lone] = NoRequest]
  /\ ret' = [ret EXCEPT ![Lone] = NoResult]
  /\ db' = [k \in AllKeys |-> EmptyStore]
  /\ UNCHANGED << poolMu, life, rpc, snap, seen, accepted, serial, nCalls >>

\* kvpool.New(dir) on the directory of the pool before it, after that pool
\* was closed or its process ended in a panic: an empty pool map, and Conns
\* created on demand with the file names of before.
New ==
  /\ pc[Lone] \in {"returned", "panic"}
  /\ Len(pools) < MaxPools
  /\ pools' = Append(pools, nCalls)
  /\ conn' = {}
  /\ semCur' = [k \in AllKeys |-> 0]
  /\ semWaiters' = [k \in AllKeys |-> <<>>]
  /\ store' = [k \in AllKeys |-> "nil"]
  /\ pc' = [pc EXCEPT ![Lone] = "idle"]
  /\ req' = [req EXCEPT ![Lone] = NoRequest]
  /\ ret' = [ret EXCEPT ![Lone] = NoResult]
  /\ UNCHANGED << poolMu, life, rpc, db, snap, seen, accepted, serial, nCalls >>

NextPool ==
  \/ ServePoolAttestation
  \/ ServePoolProposal
  \/ ServeRelease
  \/ ReleaseUnacquired
  \/ PoolClose
  \/ New

SpecPool == Init /\ [][NextPool]_vars

\* --------------------------- workers, no cancellation, no failing store call
\* The pair the workers share, and the signing root of each worker
\* (TestClient_CheckAttestation_Concurrent: phase0.Root{byte(i)}).
LiveKeys == {"k1"}
LiveRoot(p) == IF p = "p1" THEN 0 ELSE IF p = "p2" THEN 1 ELSE 2

LiveCall(p) ==
  /\ nCalls < MaxLiveCalls
  /\ \E k \in LiveKeys : Enter(p, "CheckAttestation", k)

\* Conn.acquire whose kv.NewKVStore succeeds.
LiveNewKVStore(p) == NewKVStore(p) /\ store'[req[p].key] = "open"

\* The rules of CheckAttestation when no store read fails, on an attestation
\* from an epoch to the next, as the workers of the test submit.
LiveCheck(p) ==
  /\ req[p].op = "CheckAttestation"
  /\ \E epoch \in Epochs :
       Check(p, [req[p] EXCEPT !.signingRoot = LiveRoot(p),
                               !.source = epoch, !.target = epoch + 1])
  /\ ret'[p].err = "nil"

\* The save of CheckAttestation when it does not fail.
LiveSave(p) == Save(p) /\ ret'[p].err = "nil"

\* Conn.Release whose Store.Close succeeds.
LiveRelease(p) == Release(p) /\ store'[req[p].key] = "nil"

\* A step of worker p.
LiveStep(p) ==
  \/ LiveCall(p)
  \/ SemAcquire(p)
  \/ LiveNewKVStore(p)
  \/ LiveCheck(p)
  \/ LiveSave(p)
  \/ LiveRelease(p)

NextLive == \E p \in AllProcs : LiveStep(p)

\* The Go scheduler runs every goroutine that can run: a worker that can take
\* a step eventually takes one.  (A worker waiting for the permit has no step
\* of its own: the release of the holder hands the permit over.)
SpecLive ==
  Init /\ [][NextLive]_vars /\ \A p \in AllProcs : WF_vars(LiveStep(p))

\* ------------------------------------- two pairs, a caller that may stop
CrossKeys == {"k1", "k2"}

\* The caller whose steps are not held up for ever; the other caller may stop
\* at any point.
Runner == "p1"

CrossCall(p) ==
  /\ nCalls < MaxCrossCalls
  /\ \E k \in CrossKeys : Enter(p, "CheckAttestation", k)

CrossStep(p) ==
  \/ CrossCall(p)
  \/ SemAcquire(p)
  \/ LiveNewKVStore(p)
  \/ LiveCheck(p)
  \/ LiveSave(p)
  \/ LiveRelease(p)

NextCross == \E p \in Procs : CrossStep(p)

SpecCross == Init /\ [][NextCross]_vars /\ WF_vars(CrossStep(Runner))

\* -------------------------- a lone caller, failures, the returned results
\* errors.Wrap: nil for a nil error, otherwise the message in front of it.
Wrap(err, message) ==
  IF err = "nil" THEN "nil" ELSE message \o ": " \o err

\* multierr.Append: the other error when one is nil, otherwise both, in
\* order.
MultierrAppend(left, right) ==
  IF left = "nil" THEN right
  ELSE IF right = "nil" THEN left
  ELSE left \o "; " \o right

\* Conn.Release's result: nil, or the close error wrapped.
ConnRelease(closeErr) == Wrap(closeErr, "kv.Store.Close")

\* A release that returns the operation's error alone when there is one.
releaseOneError(err, closeErr) ==
  IF err # "nil"
  THEN err
  ELSE Wrap(ConnRelease(closeErr), "failed to release connection")

\* protector.release: the release error in front of the operation's error.
release(err, closeErr) ==
  MultierrAppend(Wrap(ConnRelease(closeErr), "failed to release connection"),
                 err)

\* The outcomes of kv.Store.Close.
CloseErrs == {"nil", "close"}

RetCall ==
  /\ nCalls < MaxRetCalls
  /\ \E k \in Keys, op \in {"CheckAttestation", "CheckProposal", "History"} :
       Enter(Lone, op, k)

\* The deferred p.release(err, conn) of the lone caller and the return of the
\* operation with its named results: the store is closed (or the close
\* fails), the permit is released, err becomes the combined error.  The
\* caller has the results until its next call.
Return ==
  LET k == req[Lone].key IN
  /\ pc[Lone] = "Release"
  /\ semWaiters[k] = <<>>
  /\ \E closeErr \in CloseErrs :
       /\ store' = [store EXCEPT ![k] =
                      IF closeErr = "nil" THEN "nil" ELSE "closeFailed"]
       /\ ret' = [ret EXCEPT ![Lone].err = release(@, closeErr)]
  /\ semCur' = [semCur EXCEPT ![k] = @ - 1]
  /\ accepted' = [accepted EXCEPT ![k] =
                    IF ret[Lone].check = "NotSlashable"
                    THEN @ \cup {req[Lone]} ELSE @]
  /\ serial' = [serial EXCEPT ![k] = Replayed(@, req[Lone], ret[Lone])]
  /\ pc' = [pc EXCEPT ![Lone] = "idle"]
  /\ snap' = [snap EXCEPT ![Lone] = EmptyStore]
  /\ UNCHANGED << poolMu, life, rpc, pools, db, conn, semWaiters, req, seen, nCalls >>

\* A nil *phase0.Checkpoint in the attestation data.
NilCheckpoint == 0 - 1

\* CheckAttestation on data with a nil Source or Target, when no store call
\* fails: data.Source.Epoch is read after the lowest source epoch was found
\* to exist, data.Target.Epoch is read next, data.Source.Epoch is read again
\* when the attestation is converted; a read through a nil checkpoint
\* panics, unless a rule has returned before it.
NilCheckpointOutcome(h, signingRoot, source, target) ==
  LET lowestSourceEpoch == LowestSignedSourceEpoch(h)
      lowestTargetEpoch == LowestSignedTargetEpoch(h)
  IN  IF lowestSourceEpoch.exists /\ source = NilCheckpoint
      THEN "panic"
      ELSE IF lowestSourceEpoch.exists /\ source < lowestSourceEpoch.value
      THEN "LowestSourceEpoch"
      ELSE IF target = NilCheckpoint
      THEN "panic"
      ELSE IF /\ SigningRootsDiffer(SigningRootAtTargetEpoch(h, target),
                                    signingRoot)
              /\ lowestTargetEpoch.exists
              /\ target <= lowestTargetEpoch.value
      THEN "LowestTargetEpoch"
      ELSE "panic"

\* CheckAttestation of the lone caller between Acquire and the deferred
\* release, on data with a nil checkpoint.
CheckNilCheckpoint ==
  LET k == req[Lone].key IN
  /\ pc[Lone] = "check"
  /\ req[Lone].op = "CheckAttestation"
  /\ \E root \in Roots,
        source \in Epochs \cup {NilCheckpoint},
        target \in Epochs \cup {NilCheckpoint} :
       LET v == NilCheckpointOutcome(db[k], root, source, target) IN
       /\ source = NilCheckpoint \/ target = NilCheckpoint
       /\ req' = [req EXCEPT ![Lone].signingRoot = root,
                             ![Lone].source = source,
                             ![Lone].target = target]
       /\ \/ /\ v = "panic"
             /\ ret' = ret
             /\ pc' = [pc EXCEPT ![Lone] = "panicking"]
          \/ /\ v # "panic"
             /\ ret' = [ret EXCEPT ![Lone].check = v]
             /\ pc' = [pc EXCEPT ![Lone] = "Release"]
          \/ /\ ret' = [ret EXCEPT ![Lone].err = "store"]
             /\ pc' = [pc EXCEPT ![Lone] = "Release"]
  /\ UNCHANGED << poolMu, life, rpc, pools, db, conn, semCur, semWaiters, store, snap, seen,
                  accepted, serial, nCalls >>

\* The deferred p.release(err, conn) run while the operation panics: the
\* store is closed (or the close fails), the permit is released, and the
\* panic goes on to the caller; the operation returns nothing.
Unwind ==
  LET k == req[Lone].key IN
  /\ pc[Lone] = "panicking"
  /\ \/ store' = [store EXCEPT ![k] = "nil"]
     \/ store' = [store EXCEPT ![k] = "closeFailed"]
  /\ semCur' = [semCur EXCEPT ![k] = @ - 1]
  /\ pc' = [pc EXCEPT ![Lone] = "panic"]
  /\ snap' = [snap EXCEPT ![Lone] = EmptyStore]
  /\ UNCHANGED << poolMu, life, rpc, pools, db, conn, semWaiters, req, ret, seen, accepted,
                  serial, nCalls >>

NextRet ==
  \/ RetCall
  \/ SemAcquire(Lone)
  \/ NewKVStore(Lone)
  \/ CheckAttestation(Lone)
  \/ CheckProposal(Lone)
  \/ Save(Lone)
  \/ History(Lone)
  \/ CheckNilCheckpoint
  \/ Unwind
  \/ Return

SpecRet == Init /\ [][NextRet]_vars

\* ------------------------- two callers, failing opens and closes, results
\* The deferred c.semaphore.Release(1) of caller p on key k, after which p
\* returns: the permit goes to the first waiter, or is free (h is the key's
\* database at that time).  The arguments and results of p are left to the
\* caller.
SemReleasedBy(p, k, h) ==
  LET moved == [pc EXCEPT ![p] = "idle"]
      grant == semWaiters[k] # <<>> /\ SemSize - (semCur[k] - 1) >= 1
      w     == Head(semWaiters[k])
  IN  /\ semCur' = [semCur EXCEPT ![k] = IF grant THEN @ ELSE @ - 1]
      /\ semWaiters' = [semWaiters EXCEPT ![k] = IF grant THEN Tail(@) ELSE @]
      /\ pc' = IF grant THEN [moved EXCEPT ![w] = "NewKVStore"] ELSE moved
      /\ snap' = IF grant
                 THEN [snap EXCEPT ![p] = EmptyStore, ![w] = h]
                 ELSE [snap EXCEPT ![p] = EmptyStore]

\* The error of an operation whose Acquire failed at kv.NewKVStore.
OpenError == Wrap("kv.NewKVStore", "kvpool.Acquire")

\* A Conn.acquire without the deferred function that gives the permit back
\* when the open fails.
AcquireFailsPermitKept(p) ==
  /\ pc[p] = "NewKVStore"
  /\ ret' = [ret EXCEPT ![p] = [NoResult EXCEPT !.err = OpenError]]
  /\ seen' = [seen EXCEPT ![p] = {}]
  /\ pc' = [pc EXCEPT ![p] = "idle"]
  /\ snap' = [snap EXCEPT ![p] = EmptyStore]
  /\ UNCHANGED << poolMu, life, rpc, pools, db, conn, semCur, semWaiters, store, req,
                  accepted, serial, nCalls >>

\* Conn.acquire when kv.NewKVStore fails: c.Store is left as it was, the
\* deferred function releases the permit, Pool.Acquire returns the error and
\* the operation returns (nil, "kvpool.Acquire: ...").  The caller has that
\* result until its next call.
AcquireFails(p) ==
  LET k == req[p].key IN
  /\ pc[p] = "NewKVStore"
  /\ ret' = [ret EXCEPT ![p] = [NoResult EXCEPT !.err = OpenError]]
  /\ seen' = [seen EXCEPT ![p] = {}]
  /\ SemReleasedBy(p, k, db[k])
  /\ UNCHANGED << poolMu, life, rpc, pools, db, conn, store, req, accepted, serial, nCalls >>

\* A Conn.Release whose semaphore release is not deferred: when the close
\* fails it returns the error with the permit still taken.
ReleaseAndReturnPermitKeptOnError(p) ==
  LET k == req[p].key IN
  /\ pc[p] = "Release"
  /\ \E closeErr \in CloseErrs :
       /\ store' = [store EXCEPT ![k] =
                      IF closeErr = "nil" THEN "nil" ELSE "closeFailed"]
       /\ ret' = [ret EXCEPT ![p].err = release(@, closeErr)]
       /\ IF closeErr = "nil"
          THEN SemReleasedBy(p, k, db[k])
          ELSE /\ pc' = [pc EXCEPT ![p] = "idle"]
               /\ snap' = [snap EXCEPT ![p] = EmptyStore]
               /\ UNCHANGED << semCur, semWaiters >>
  /\ accepted' = [accepted EXCEPT ![k] =
                    IF ret[p].check = "NotSlashable"
                    THEN @ \cup {req[p]} ELSE @]
  /\ seen' = [seen EXCEPT ![p] = {}]
  /\ serial' = [serial EXCEPT ![k] = Replayed(@, req[p], ret[p])]
  /\ UNCHANGED << poolMu, life, rpc, pools, db, conn, req, nCalls >>

\* The deferred p.release(err, conn) and the return of the operation with
\* its named results, among concurrent callers: the store is closed and set
\* to nil (or the close fails and Conn.Release returns early), the permit is
\* released, err becomes the combined error.
ReleaseAndReturn(p) ==
  LET k == req[p].key IN
  /\ pc[p] = "Release"
  /\ \E closeErr \in CloseErrs :
       /\ store' = [store EXCEPT ![k] =
                      IF closeErr = "nil" THEN "nil" ELSE "closeFailed"]
       /\ ret' = [ret EXCEPT ![p].err = release(@, closeErr)]
  /\ accepted' = [accepted EXCEPT ![k] =
                    IF ret[p].check = "NotSlashable"
                    THEN @ \cup {req[p]} ELSE @]
  /\ seen' = [q \in AllProcs |->
                IF q = p THEN {}
                ELSE IF /\ q \in InFlight
                        /\ req[q].key = k
                        /\ ret[p].check = "NotSlashable"
                THEN seen[q] \cup {req[p]}
                ELSE seen[q]]
  /\ serial' = [serial EXCEPT ![k] = Replayed(@, req[p], ret[p])]
  /\ SemReleasedBy(p, k, db[k])
  /\ UNCHANGED << poolMu, life, rpc, pools, db, conn, req, nCalls >>

OpenCall(p) ==
  /\ nCalls < MaxOpenCalls
  /\ \E k \in Keys, op \in {"CheckProposal", "History"} : Enter(p, op, k)

NextOpen ==
  \E p \in Procs :
    \/ OpenCall(p)
    \/ SemAcquire(p)
    \/ LiveNewKVStore(p)
    \/ AcquireFails(p)
    \/ CheckProposal(p)
    \/ Save(p)
    \/ History(p)
    \/ ReleaseAndReturn(p)

SpecOpen == Init /\ [][NextOpen]_vars

\* ------------------------------- the contexts of a handle and of a request
\* The caller's request context is cancelled while the caller is inside an
\* operation and has the permit.  A worker that was started with that
\* context stops.
CancelRequest(p) ==
  /\ pc[p] \in {"NewKVStore", "check", "save", "Release", "cancelStoreCtx",
                "semaphoreRelease"}
  /\ life.request[p] = "live"
  /\ life' = [life EXCEPT
                !.request[p] = "cancelled",
                !.worker = [k \in AllKeys |->
                              IF life.boundTo[k] = p /\ @[k] = "running"
                              THEN "stopped" ELSE @[k]]]
  /\ UNCHANGED << db, conn, semCur, semWaiters, store, pc, req, ret, snap,
                  seen, accepted, serial, nCalls, pools, rpc, poolMu >>

\* A Conn.acquire that opens the store with the context of the request.
NewKVStoreRequestCtx(p) ==
  LET k == req[p].key IN
  /\ pc[p] = "NewKVStore"
  /\ \/ /\ store' = [store EXCEPT ![k] = "open"]
        /\ pc' = [pc EXCEPT ![p] = "check"]
        /\ life' = [life EXCEPT
                      !.ctx[k] = "live",
                      !.boundTo[k] = p,
                      !.worker[k] = IF life.request[p] = "live"
                                    THEN "running" ELSE "stopped"]
        /\ UNCHANGED << semCur, semWaiters, req, ret, snap, seen >>
     \/ /\ life' = [life EXCEPT !.ctx[k] = "live", !.request[p] = "live"]
        /\ ret' = [ret EXCEPT ![p] = [NoResult EXCEPT !.err = OpenError]]
        /\ seen' = [seen EXCEPT ![p] = {}]
        /\ SemReleasedBy(p, k, db[k])
        /\ UNCHANGED << store, req >>
  /\ UNCHANGED << poolMu, rpc, pools, db, conn, accepted, serial, nCalls >>

\* Conn.acquire after the permit was granted: the lifetime context is made
\* from context.Background() and its cancel function is kept in the handle;
\* kv.NewKVStore is called with that context and starts the store's worker,
\* and c.Store is set; or kv.NewKVStore fails, the deferred function gives
\* the permit back and the operation returns the Acquire error.
NewKVStoreCtx(p) ==
  LET k == req[p].key IN
  /\ pc[p] = "NewKVStore"
  /\ \/ /\ store' = [store EXCEPT ![k] = "open"]
        /\ pc' = [pc EXCEPT ![p] = "check"]
        /\ life' = [life EXCEPT
                      !.ctx[k] = "live",
                      !.boundTo[k] = "lifetime",
                      !.worker[k] = "running"]
        /\ UNCHANGED << semCur, semWaiters, req, ret, snap, seen >>
     \/ /\ life' = [life EXCEPT !.ctx[k] = "live", !.request[p] = "live"]
        /\ ret' = [ret EXCEPT ![p] = [NoResult EXCEPT !.err = OpenError]]
        /\ seen' = [seen EXCEPT ![p] = {}]
        /\ SemReleasedBy(p, k, db[k])
        /\ UNCHANGED << store, req >>
  /\ UNCHANGED << poolMu, rpc, pools, db, conn, accepted, serial, nCalls >>

\* Conn.Release, its body: c.Store.Close(), and c.Store = nil when the close
\* succeeded.  The two deferred calls are still to run.
ReleaseClose(p) ==
  LET k == req[p].key IN
  /\ pc[p] = "Release"
  /\ \E closeErr \in CloseErrs :
       /\ store' = [store EXCEPT ![k] =
                      IF closeErr = "nil" THEN "nil" ELSE "closeFailed"]
       /\ ret' = [ret EXCEPT ![p].err = release(@, closeErr)]
  /\ pc' = [pc EXCEPT ![p] = "cancelStoreCtx"]
  /\ UNCHANGED << poolMu, life, rpc, pools, db, conn, semCur, semWaiters, req, snap,
                  seen, accepted, serial, nCalls >>

\* Conn.Release, the deferred c.cancelStoreCtx(): it was deferred last and
\* runs first.  The worker of a store opened with the lifetime context
\* stops.
ReleaseCancel(p) ==
  LET k == req[p].key IN
  /\ pc[p] = "cancelStoreCtx"
  /\ life' = [life EXCEPT
                !.ctx[k] = "cancelled",
                !.worker[k] = IF life.boundTo[k] = "lifetime" /\ @ = "running"
                              THEN "stopped" ELSE @]
  /\ pc' = [pc EXCEPT ![p] = "semaphoreRelease"]
  /\ UNCHANGED << poolMu, rpc, pools, db, conn, semCur, semWaiters, store, req, ret,
                  snap, seen, accepted, serial, nCalls >>

\* Conn.Release, the deferred c.semaphore.Release(1): it was deferred first
\* and runs last; then the operation returns its results.
ReleaseSemaphore(p) ==
  LET k == req[p].key IN
  /\ pc[p] = "semaphoreRelease"
  /\ accepted' = [accepted EXCEPT ![k] =
                    IF ret[p].check = "NotSlashable"
                    THEN @ \cup {req[p]} ELSE @]
  /\ seen' = [seen EXCEPT ![p] = {}]
  /\ serial' = [serial EXCEPT ![k] = Replayed(@, req[p], ret[p])]
  /\ life' = [life EXCEPT !.request[p] = "live"]
  /\ SemReleasedBy(p, k, db[k])
  /\ UNCHANGED << poolMu, rpc, pools, db, conn, store, req, ret, nCalls >>

CtxCall(p) ==
  /\ nCalls < MaxCtxCalls
  /\ \E k \in Keys : Enter(p, "CheckProposal", k)

NextCtx ==
  \E p \in Procs :
    \/ CtxCall(p)
    \/ SemAcquire(p)
    \/ CtxDone(p)
    \/ NewKVStoreCtx(p)
    \/ CheckProposal(p)
    \/ Save(p)
    \/ CancelRequest(p)
    \/ ReleaseClose(p)
    \/ ReleaseCancel(p)
    \/ ReleaseSemaphore(p)

SpecCtx == Init /\ [][NextCtx]_vars

\* ----------------------- Pool.Close and Release beside a running operation
\* Conn.Release on the handle of key k, run by caller c, whoever holds the
\* handle: with c.Store nil the result is the "connection not acquired"
\* error; otherwise the store is closed and c.Store set to nil, or the close
\* fails and its error is the result.  Then the deferred calls run: the
\* lifetime context, if there is one, is cancelled, and
\* c.semaphore.Release(1) gives a permit back (to the first waiter, if any)
\* or panics when none is taken.  connErr is the result, done the place of c
\* after a return.
ReleaseOn(c, k, done, connErr) ==
  \E closeErr \in CloseErrs :
    /\ connErr = IF store[k] = "nil" THEN "connection not acquired"
                 ELSE ConnRelease(closeErr)
    /\ store' = IF store[k] = "nil" THEN store
                ELSE [store EXCEPT ![k] =
                        IF closeErr = "nil" THEN "nil" ELSE "closeFailed"]
    /\ life' = [life EXCEPT
                  !.ctx[k] = IF @ = "none" THEN @ ELSE "cancelled",
                  !.worker[k] = IF @ = "running" THEN "stopped" ELSE @]
    /\ IF SemReleasePanics(k)
       THEN /\ pc' = [pc EXCEPT ![c] = "panic"]
            /\ UNCHANGED << semCur, semWaiters, snap >>
       ELSE LET grant == semWaiters[k] # <<>>
                w     == Head(semWaiters[k])
                moved == [pc EXCEPT ![c] = done]
            IN  /\ semCur' = [semCur EXCEPT ![k] = IF grant THEN @ ELSE @ - 1]
                /\ semWaiters' = [semWaiters EXCEPT ![k] =
                                    IF grant THEN Tail(@) ELSE @]
                /\ pc' = IF grant THEN [moved EXCEPT ![w] = "NewKVStore"]
                         ELSE moved
                /\ snap' = IF grant THEN [snap EXCEPT ![w] = db[k]] ELSE snap

\* Pool.Close has returned nil: the pool map was reset.
Closed ==
  \E c \in AllProcs :
    req[c].op = "Close" /\ pc[c] = "returned" /\ ret[c].err = "nil"

\* A call of CheckProposal on a pool that was not closed; getOrCreate takes
\* the pool mutex for the lookup.
CloseCall(p) ==
  /\ poolMu = "free"
  /\ ~ Closed
  /\ nCalls < MaxCloseCalls
  /\ \E k \in Keys : Enter(p, "CheckProposal", k)

\* The reads and the rules, and the save, on the holder's open store.
HeldCheckProposal(p) == store[req[p].key] = "open" /\ CheckProposal(p)

HeldSave(p) == store[req[p].key] = "open" /\ Save(p)

\* A store call of the holder after its store was closed, or c.Store set to
\* nil, by another caller: the call fails, or dereferences the nil store and
\* panics.
UseClosedStore(p) ==
  /\ pc[p] \in {"check", "save"}
  /\ store[req[p].key] # "open"
  /\ \/ /\ ret' = [ret EXCEPT ![p].err = "store"]
        /\ pc' = [pc EXCEPT ![p] = "Release"]
     \/ /\ ret' = ret
        /\ pc' = [pc EXCEPT ![p] = "panicking"]
  /\ UNCHANGED << poolMu, life, rpc, pools, db, conn, semCur, semWaiters,
                  store, req, snap, seen, accepted, serial, nCalls >>

\* The deferred p.release(err, conn) of the holder, on return or while it
\* panics.
HolderRelease(p) ==
  LET k == req[p].key IN
  /\ pc[p] \in {"Release", "panicking"}
  /\ \E connErr \in {"nil", "connection not acquired", ConnRelease("close")} :
       /\ ReleaseOn(p, k, IF pc[p] = "Release" THEN "idle" ELSE "panic",
                    connErr)
       /\ ret' = IF pc[p] = "Release" /\ ~ SemReleasePanics(k)
                 THEN [ret EXCEPT ![p].err =
                         MultierrAppend(
                           Wrap(connErr, "failed to release connection"), @)]
                 ELSE ret
  /\ accepted' = [accepted EXCEPT ![k] =
                    IF ret[p].check = "NotSlashable"
                    THEN @ \cup {req[p]} ELSE @]
  /\ serial' = [serial EXCEPT ![k] = Replayed(@, req[p], ret[p])]
  /\ UNCHANGED << poolMu, rpc, pools, db, conn, req, seen, nCalls >>

\* Pool.Close: p.poolMu.Lock().
PoolCloseLock(c) ==
  /\ pc[c] = "idle"
  /\ poolMu = "free"
  /\ poolMu' = c
  /\ pc' = [pc EXCEPT ![c] = "closing"]
  /\ req' = [req EXCEPT ![c] = [NoRequest EXCEPT !.op = "Close"]]
  /\ ret' = [ret EXCEPT ![c] = NoResult]
  /\ UNCHANGED << life, rpc, pools, db, conn, semCur, semWaiters, store,
                  snap, seen, accepted, serial, nCalls >>

\* Pool.Close with the mutex locked: c.Release() on the Conn of the pool
\* map, whoever holds it; an error of Release is returned wrapped (no error
\* value of Release equals a sentinel); otherwise the map is reset.  The
\* deferred p.poolMu.Unlock() runs on every path.
PoolCloseRelease(c) ==
  /\ pc[c] = "closing"
  /\ poolMu = c
  /\ poolMu' = "free"
  /\ IF conn = {}
     THEN /\ pc' = [pc EXCEPT ![c] = "returned"]
          /\ UNCHANGED << life, conn, ret, semCur, semWaiters, store, snap >>
     ELSE \E k \in conn :
          \E connErr \in {"nil", "connection not acquired",
                          ConnRelease("close")} :
            /\ ReleaseOn(c, k, "returned", connErr)
            /\ ret' = IF SemReleasePanics(k) THEN ret
                      ELSE [ret EXCEPT ![c].err = Wrap(connErr, "Conn.Release")]
            /\ conn' = IF SemReleasePanics(k) \/ connErr # "nil"
                       THEN conn ELSE {}
  /\ UNCHANGED << rpc, pools, db, req, seen, accepted, serial, nCalls >>

\* Conn.Release called by a caller that has not acquired the handle.
StrayRelease(c) ==
  /\ pc[c] = "idle"
  /\ \E k \in conn :
     \E connErr \in {"nil", "connection not acquired", ConnRelease("close")} :
       /\ req' = [req EXCEPT ![c] = [NoRequest EXCEPT !.op = "Release",
                                                      !.key = k]]
       /\ ReleaseOn(c, k, "returned", connErr)
       /\ ret' = IF SemReleasePanics(k) THEN [ret EXCEPT ![c] = NoResult]
                 ELSE [ret EXCEPT ![c] = [NoResult EXCEPT !.err = connErr]]
  /\ UNCHANGED << poolMu, rpc, pools, db, conn, seen, accepted, serial,
                  nCalls >>

NextClose ==
  \E p \in Procs :
    \/ CloseCall(p)
    \/ SemAcquire(p)
    \/ NewKVStoreCtx(p)
    \/ HeldCheckProposal(p)
    \/ HeldSave(p)
    \/ UseClosedStore(p)
    \/ HolderRelease(p)
    \/ PoolCloseLock(p)
    \/ PoolCloseRelease(p)
    \/ StrayRelease(p)

SpecClose == Init /\ [][NextClose]_vars

\* ------------------------------------------------- HTTP client and server
\* What the client asks about: one pair, two signing roots, the genesis slot
\* and the slot after it, and one pair of epochs or a nil checkpoint.
HttpKeys == {"k1"}
HttpRoots == {1, 2}
HttpSlots == {0, 1}
HttpData == {<< 0, 1 >>, << NilCheckpoint, 1 >>, << 0, NilCheckpoint >>}

\* The state outside the client, the wire and the server's engine call.
engineVars ==
  << db, conn, semCur, semWaiters, store, pc, req, ret, snap, seen, accepted,
     serial, nCalls, pools, poolMu, life >>

\* The client's call up to Fetch: the request struct, its hash, and the JSON
\* body on the wire; a zero hash is an error before anything is sent.
Fetch(op, network, r, hash) ==
  IF hash = 0
  THEN rpc' = [rpc EXCEPT !.op = op, !.network = network, !.request = r,
                          !.hash = hash, !.calls = @ + 1,
                          !.out = [NoOut EXCEPT !.err = "hash is zero"]]
  ELSE rpc' = [rpc EXCEPT !.stage = "request", !.op = op,
                          !.network = network, !.request = r, !.hash = hash,
                          !.body = BodyJSON(r), !.corrupted = FALSE,
                          !.calls = @ + 1, !.out = NoOut]

\* Client.CheckProposal, up to Fetch: the request carries no timestamp.
ClientCheckProposal ==
  /\ rpc.stage = "idle"
  /\ rpc.calls < MaxHttpCalls
  /\ \E k \in HttpKeys, root \in HttpRoots, slot \in HttpSlots :
       LET r == [NoEnvelope EXCEPT !.PubKey = KeyBytes(PubKey(k)),
                                   !.SigningRoot = RootBytes(root),
                                   !.Slot = slot]
       IN  Fetch("CheckProposal", Network(k), r, checkProposalRequestHash(r))
  /\ UNCHANGED engineVars

\* Client.CheckAttestation, up to Fetch: Hash fails on a nil checkpoint and
\* nothing is sent.
ClientCheckAttestation ==
  /\ rpc.stage = "idle"
  /\ rpc.calls < MaxHttpCalls
  /\ \E k \in HttpKeys, root \in {1}, now \in Timestamps, data \in HttpData :
       LET source == data[1]
           target == data[2]
           r == [NoEnvelope EXCEPT !.Timestamp = now,
                                   !.PubKey = KeyBytes(PubKey(k)),
                                   !.SigningRoot = RootBytes(root),
                                   !.Source = source,
                                   !.Target = target]
       IN  IF source = NilCheckpoint \/ target = NilCheckpoint
           THEN rpc' = [rpc EXCEPT
                          !.op = "CheckAttestation", !.network = Network(k),
                          !.request = r, !.hash = 0, !.calls = @ + 1,
                          !.out = [NoOut EXCEPT !.err =
                            Wrap("source and target are required",
                                 "failed to hash request")]]
           ELSE Fetch("CheckAttestation", Network(k), r,
                      checkAttestationRequestHash(r))
  /\ UNCHANGED engineVars

\* The transport changes the request on its way: another slot or target
\* epoch, or a public key that is no hexadecimal text.
CorruptRequest ==
  /\ rpc.stage = "request"
  /\ ~ rpc.corrupted
  /\ \/ /\ rpc.op = "CheckProposal"
        /\ rpc' = [rpc EXCEPT !.body.block = @ + 1, !.corrupted = TRUE]
     \/ /\ rpc.op = "CheckAttestation"
        /\ rpc' = [rpc EXCEPT !.body.target = @ + 1, !.corrupted = TRUE]
     \/ rpc' = [rpc EXCEPT !.body.pub_key = "0xzz", !.corrupted = TRUE]
  /\ UNCHANGED engineVars

\* A handler that lets the genesis slot through to the decision engine.
GenesisSlotAllowed(request) == FALSE

\* handleCheckProposal: if request.Slot == 0
GenesisSlot(request) == request.Slot = 0

\* The arguments the handlers pass to the decision engine.
EngineRequest(op, network, request) ==
  [NoRequest EXCEPT
     !.op = op,
     !.key = CHOOSE k \in AllKeys :
               Network(k) = network /\ KeyBytes(PubKey(k)) = request.PubKey,
     !.signingRoot = request.SigningRoot[1],
     !.source = request.Source,
     !.target = request.Target,
     !.slot = request.Slot]

\* The handler answers without calling the decision engine.
Refuse(status, error) ==
  /\ rpc' = [rpc EXCEPT !.stage = "response",
                        !.resp = [NoResponse EXCEPT !.status_code = status,
                                                    !.error = error],
                        !.earlier = rpc.resp]
  /\ UNCHANGED engineVars

\* The handler calls protector.CheckAttestation or protector.CheckProposal
\* (Acquire, the rules, the save, the deferred release, with no other caller
\* on the pair) and renders the response: the fingerprint of the decoded
\* request, the check, and status 500 with the error text when the call
\* returned an error.
Answer(r, fingerprint) ==
  LET k == r.key
      v == Verdict(db[k], r)
  IN
  \E decisionErr \in {"nil", "store"}, closeErr \in CloseErrs :
    LET check == IF decisionErr = "nil" THEN v ELSE "nil"
        err   == release(decisionErr, closeErr)
    IN
    /\ nCalls' = nCalls + 1
    /\ conn' = conn \cup {k}
    /\ db' = [db EXCEPT ![k] =
                IF check = "NotSlashable" THEN Saved(db[k], r) ELSE db[k]]
    /\ accepted' = [accepted EXCEPT ![k] =
                      IF check = "NotSlashable" THEN @ \cup {r} ELSE @]
    /\ serial' = [serial EXCEPT ![k] =
                    IF check = "NotSlashable"
                    THEN Saved(serial[k], r) ELSE serial[k]]
    /\ store' = [store EXCEPT ![k] =
                   IF closeErr = "nil" THEN "nil" ELSE "closeFailed"]
    /\ rpc' = [rpc EXCEPT
                 !.stage = "response",
                 !.resp = [NoResponse EXCEPT
                             !.hash = fingerprint,
                             !.check = check,
                             !.status_code = IF err = "nil" THEN 0 ELSE 500,
                             !.error = IF err = "nil" THEN "" ELSE err],
                 !.earlier = rpc.resp]
    /\ UNCHANGED << semCur, semWaiters, pc, req, ret, snap, seen, pools,
                    poolMu, life >>

\* Server.handleCheckProposal
handleCheckProposal ==
  /\ rpc.stage = "request"
  /\ rpc.op = "CheckProposal"
  /\ IF DecodeError(rpc.body)
     THEN Refuse(400, "invalid character")
     ELSE \E request \in {Decode(rpc.body)} :
            IF GenesisSlot(request)
            THEN Refuse(400, "can not propose at genesis slot")
            ELSE \E r \in {EngineRequest("CheckProposal", rpc.network,
                                         request)} :
                   Answer(r, Fingerprint("CheckProposal", request))

\* Server.handleCheckAttestation
handleCheckAttestation ==
  /\ rpc.stage = "request"
  /\ rpc.op = "CheckAttestation"
  /\ IF DecodeError(rpc.body)
     THEN Refuse(400, "invalid character")
     ELSE \E request \in {Decode(rpc.body)} :
            \E r \in {EngineRequest("CheckAttestation", rpc.network,
                                    request)} :
              Answer(r, Fingerprint("CheckAttestation", request))

\* The transport changes the response on its way: another hash, or another
\* check.
CorruptResponse ==
  /\ rpc.stage = "response"
  /\ ~ rpc.corrupted
  /\ \/ rpc' = [rpc EXCEPT !.resp.hash = (@ + 1) % HashSpace,
                             !.corrupted = TRUE]
     \/ rpc' = [rpc EXCEPT !.resp.check = IF @ = "NotSlashable"
                                          THEN "nil" ELSE "NotSlashable",
                             !.corrupted = TRUE]
  /\ UNCHANGED engineVars

\* The response of the exchange before is delivered in place of this one.
CrossWire ==
  /\ rpc.stage = "response"
  /\ ~ rpc.corrupted
  /\ rpc.earlier # NoResponse
  /\ rpc.earlier # rpc.resp
  /\ rpc' = [rpc EXCEPT !.resp = rpc.earlier, !.corrupted = TRUE]
  /\ UNCHANGED engineVars

\* A client that does not compare the echoed hash with its own.
ClientResultHashUnchecked(hash, resp) ==
  IF resp.error # ""
  THEN [NoOut EXCEPT !.err = Wrap(resp.error, "error from server")]
  ELSE IF resp.check = "nil"
  THEN [NoOut EXCEPT !.err = "malformed response: check is nil"]
  ELSE [NoOut EXCEPT !.check = resp.check]

\* Client.CheckAttestation / Client.CheckProposal after Fetch: the server's
\* error, then the hash, then the check.
ClientResult(hash, resp) ==
  IF resp.error # ""
  THEN [NoOut EXCEPT !.err = Wrap(resp.error, "error from server")]
  ELSE IF resp.hash # hash
  THEN [NoOut EXCEPT !.err = "mismatching hash"]
  ELSE IF resp.check = "nil"
  THEN [NoOut EXCEPT !.err = "malformed response: check is nil"]
  ELSE [NoOut EXCEPT !.check = resp.check]

\* The response arrives and the client's call returns.
ClientReturn ==
  /\ rpc.stage = "response"
  /\ rpc' = [rpc EXCEPT !.stage = "idle", !.body = NoBody,
                        !.out = ClientResult(rpc.hash, rpc.resp)]
  /\ UNCHANGED engineVars

\* Fetch fails: the request or the response is lost.
FetchFails ==
  /\ rpc.stage \in {"request", "response"}
  /\ rpc' = [rpc EXCEPT !.stage = "idle", !.body = NoBody,
                        !.out = [NoOut EXCEPT !.err = "failed to fetch"]]
  /\ UNCHANGED engineVars

NextHttp ==
  \/ ClientCheckProposal
  \/ ClientCheckAttestation
  \/ CorruptRequest
  \/ handleCheckProposal
  \/ handleCheckAttestation
  \/ CorruptResponse
  \/ CrossWire
  \/ ClientReturn
  \/ FetchFails

SpecHttp == Init /\ [][NextHttp]_vars

\* -------------------------------------------------------------- properties
Checks == {"CheckAttestation", "CheckProposal"}

\* The callers that hold the handle of key k: between a successful Acquire
\* and the Release of the operation.
Holders(k) ==
  { p \in AllProcs : pc[p] \in {"check", "save", "Release"} /\ req[p].key = k }

\* The callers whose operation on key k has its results and is about to
\* release the handle and return them.
Returning(k) == { p \in AllProcs : pc[p] = "Release" /\ req[p].key = k }

\* The requests on key k that returned, or are returning, a NotSlashable check.
Accepted(k) ==
  accepted[k] \cup
    { req[p] : p \in { q \in Returning(k) : ret[q].check = "NotSlashable" } }

AcceptedProposals(k) == { a \in Accepted(k) : a.op = "CheckProposal" }

AcceptedAttestations(k) == { a \in Accepted(k) : a.op = "CheckAttestation" }

\* The requests on key k that returned a NotSlashable check in an earlier call.
Earlier(k) == accepted[k]

\* Two requests that conflict: two proposals for one slot with different
\* roots, two attestations for one target epoch with different roots, or two
\* attestations one of which surrounds the other.
Conflict(a, b) ==
  \/ /\ a.op = "CheckProposal" /\ b.op = "CheckProposal"
     /\ a.slot = b.slot /\ a.signingRoot # b.signingRoot
  \/ /\ a.op = "CheckAttestation" /\ b.op = "CheckAttestation"
     /\ \/ a.target = b.target /\ a.signingRoot # b.signingRoot
        \/ IsSurround(a.source, a.target, b.source, b.target)
        \/ IsSurround(b.source, b.target, a.source, a.target)

\* The record of accepted request a is in database h.
Written(h, a) ==
  IF a.op = "CheckProposal"
  THEN ProposalHistoryForSlot(h, a.slot) = Present(a.signingRoot)
  ELSE /\ << a.source, a.target >> \in Recorded(h)
       /\ a.target \in DOMAIN h.signingRoots
       /\ h.signingRoots[a.target] = a.signingRoot

C4_OneHolder ==
  \A k \in Keys :
    /\ Cardinality(Holders(k)) <= 1
    /\ Holders(k) # {} => store[k] = "open"

\* One caller holds the handle of a key while another waits for the permit
\* of the same key.
C4_Witness ==
  \E p, q \in Procs :
    /\ p \in Holders(req[p].key)
    /\ pc[q] = "waiting"
    /\ req[q].key = req[p].key

\* C5: a CheckAttestation or CheckProposal that is about to return without a
\* NotSlashable check (a Slashable verdict, or an error of a store read or of
\* the save) leaves the database of the key as it was when the operation got
\* the permit; and every step that changes a database is the save of an
\* operation that returns a NotSlashable check.
C5_RefusalKeepsHistory ==
  /\ [] (\A p \in Procs :
           ( /\ pc[p] = "Release"
             /\ req[p].op \in Checks
             /\ ret[p].check # "NotSlashable" )
           => db[req[p].key] = snap[p])
  /\ [][ \A k \in Keys :
           db'[k] # db[k] =>
             \E p \in Procs :
               /\ req[p].key = k /\ req[p].op \in Checks
               /\ pc[p] = "save" /\ pc'[p] = "Release"
               /\ ret'[p].check = "NotSlashable" ]_vars

\* A check that found a non-empty history is about to return a Slashable
\* verdict.
C5_Witness ==
  \E p \in Procs :
    /\ pc[p] = "Release"
    /\ req[p].op \in Checks
    /\ ret[p].check \notin {"nil", "NotSlashable"}
    /\ snap[p] # EmptyStore
    /\ db[req[p].key] = snap[p]

\* C6: an operation that holds the handle decides on a database that has the
\* record of every request accepted on its key since the operation was
\* called, and it returns NotSlashable only if its request conflicts with
\* none of them: of two concurrent conflicting requests at most one is
\* accepted.
C6_SecondSeesFirst ==
  \A p \in Procs :
    /\ p \in Holders(req[p].key) =>
         \A a \in seen[p] : Written(snap[p], a)
    /\ (pc[p] = "Release" /\ ret[p].check = "NotSlashable") =>
         \A a \in seen[p] : ~ Conflict(a, req[p])

\* A request that conflicts with a request accepted while it was in flight
\* is about to return a Slashable verdict.
C6_Witness ==
  \E p \in Procs :
    /\ pc[p] = "Release"
    /\ ret[p].check \notin {"nil", "NotSlashable", "History"}
    /\ \E a \in seen[p] : Conflict(a, req[p])

\* C7: the operations on a key behave as if run one at a time in the order
\* in which they got the permit.  The holder read the database of the replay
\* of the operations before it, nobody else writes the database between the
\* holder's reads and its save, the holder's verdict (or history) is the one
\* the replay gives, and when nobody holds the handle the database is the
\* database of the replay.
C7_SerialInPermitOrder ==
  \A k \in Keys :
    /\ Holders(k) = {} => db[k] = serial[k]
    /\ \A p \in Holders(k) :
         /\ snap[p] = serial[k]
         /\ pc[p] \in {"check", "save"} => db[k] = snap[p]
         /\ pc[p] = "Release" =>
              /\ db[k] = Replayed(serial[k], req[p], ret[p])
              /\ (ret[p].err = "nil" /\ req[p].op \in Checks) =>
                   ret[p].check = Verdict(serial[k], req[p])
              /\ (ret[p].err = "nil" /\ req[p].op = "History") =>
                   ret[p].history = HistoryOf(serial[k])

\* A check that was in flight while another request was accepted on its key
\* has its verdict on a non-empty history.
C7_Witness ==
  \E p \in Procs :
    /\ pc[p] = "Release"
    /\ req[p].op \in Checks
    /\ ret[p].err = "nil"
    /\ seen[p] # {}
    /\ serial[req[p].key] # EmptyStore

\* The callers whose CheckAttestation / CheckProposal is about to return the
\* result of its rules (no store call of it failed) on a request that an
\* earlier call on the key accepted.
Resubmitting(op) ==
  { p \in Procs :
      /\ pc[p] = "Release"
      /\ req[p].op = op
      /\ ret[p].err = "nil"
      /\ req[p] \in Earlier(req[p].key) }

\* C8 (as amended): if CheckAttestation returned NotSlashable for (network,
\* pubKey, signingRoot, data) and signingRoot is not the all-zero root, a
\* later call with exactly the same arguments returns NotSlashable, for any
\* attestation data.
C8_ResubmittedAttestation ==
  \A p \in Resubmitting("CheckAttestation") :
    req[p].signingRoot # ZeroHash => ret[p].check = "NotSlashable"

\* An accepted attestation with a non-zero root was submitted again and is
\* accepted again.
C8_Witness ==
  \E p \in Resubmitting("CheckAttestation") :
    req[p].signingRoot # ZeroHash /\ ret[p].check = "NotSlashable"

\* C8 as stated: a later call with the arguments of an accepted
\* CheckAttestation returns NotSlashable for any signing root value.
C8_AnySigningRoot ==
  \A p \in Resubmitting("CheckAttestation") : ret[p].check = "NotSlashable"

\* C9 (as amended): if CheckProposal returned NotSlashable for (network,
\* pubKey, signingRoot, slot) and signingRoot is not the all-zero root, a
\* later call with exactly the same arguments returns NotSlashable and
\* leaves the recorded roots and the lowest-signed-slot watermark unchanged,
\* for any slot.
C9_ResubmittedProposal ==
  \A p \in Resubmitting("CheckProposal") :
    req[p].signingRoot # ZeroHash =>
      /\ ret[p].check = "NotSlashable"
      /\ db[req[p].key].proposals = snap[p].proposals
      /\ LowestSignedProposal(db[req[p].key]) = LowestSignedProposal(snap[p])

\* An accepted proposal with a non-zero root was submitted again, after a
\* proposal for another slot, and is accepted again.
C9_Witness ==
  \E p \in Resubmitting("CheckProposal") :
    /\ req[p].signingRoot # ZeroHash
    /\ ret[p].check = "NotSlashable"
    /\ \E a \in Earlier(req[p].key) :
         a.op = "CheckProposal" /\ a.slot # req[p].slot

\* C9 as stated: a later call with the arguments of an accepted CheckProposal
\* returns NotSlashable and leaves root and watermark unchanged, for any
\* signing root value.
C9_AnySigningRoot ==
  \A p \in Resubmitting("CheckProposal") :
    /\ ret[p].check = "NotSlashable"
    /\ db[req[p].key].proposals = snap[p].proposals
    /\ LowestSignedProposal(db[req[p].key]) = LowestSignedProposal(snap[p])

\* The callers whose CheckAttestation is about to return the result of its
\* rules on an attestation whose target epoch has an accepted attestation
\* with a different signing root.
VotingAgain ==
  { p \in Procs :
      /\ pc[p] = "Release"
      /\ req[p].op = "CheckAttestation"
      /\ ret[p].err = "nil"
      /\ \E a \in Earlier(req[p].key) :
           /\ a.op = "CheckAttestation"
           /\ a.target = req[p].target
           /\ a.signingRoot # req[p].signingRoot }

\* C10 (as amended): if an attestation with target epoch T and signing root R
\* was accepted for a key, every later CheckAttestation on that key with
\* target epoch T and a signing root different from R returns Slashable, with
\* the lowest-source-epoch, the lowest-target-epoch or the double-vote
\* reason, and records nothing.
C10_DoubleVoteRefused ==
  \A p \in VotingAgain :
    /\ ret[p].check \in {"LowestSourceEpoch", "LowestTargetEpoch", "DoubleVote"}
    /\ db[req[p].key] = snap[p]

\* A second vote for a target epoch that is not the lowest signed one is
\* refused as a double vote.
C10_Witness ==
  \E p \in VotingAgain :
    /\ ret[p].check = "DoubleVote"
    /\ db[req[p].key] = snap[p]

\* C10 as stated: the later call returns Slashable with the double-vote or
\* the lowest-target-epoch reason and records nothing.
C10_TwoReasons ==
  \A p \in VotingAgain :
    /\ ret[p].check \in {"LowestTargetEpoch", "DoubleVote"}
    /\ db[req[p].key] = snap[p]

\* The callers whose CheckAttestation is about to return the result of its
\* rules (no store call of it failed).
Attesting ==
  { p \in Procs :
      /\ pc[p] = "Release"
      /\ req[p].op = "CheckAttestation"
      /\ ret[p].err = "nil" }

\* Attestation r passes every rule of the claim on database h: its source is
\* not below the lowest signed source (or there is none), its target is above
\* the lowest signed target (or there is none), no root is recorded at its
\* target epoch, and it neither surrounds nor is surrounded by a recorded
\* attestation.
Admissible(h, r) ==
  /\ LowestSignedSourceEpoch(h).exists =>
       r.source >= LowestSignedSourceEpoch(h).value
  /\ LowestSignedTargetEpoch(h).exists =>
       r.target > LowestSignedTargetEpoch(h).value
  /\ r.target \notin DOMAIN h.signingRoots
  /\ \A st \in Recorded(h) :
       /\ ~ IsSurround(r.source, r.target, st[1], st[2])
       /\ ~ IsSurround(st[1], st[2], r.source, r.target)

\* C11: CheckAttestation returns NotSlashable and records the attestation
\* whenever the attestation's source is not below the lowest signed source (or
\* none is recorded), its target is above the lowest signed target (or none is
\* recorded), no root is recorded at its target epoch, and it neither
\* surrounds nor is surrounded by a recorded attestation; so att(0, 1)
\* followed by att(1, 2) with the same signing root are both NotSlashable.
C11_AdmissibleAccepted ==
  \A p \in Attesting :
    Admissible(snap[p], req[p]) =>
      /\ ret[p].check = "NotSlashable"
      /\ Written(db[req[p].key], req[p])
      /\ Recorded(db[req[p].key]) =
           Recorded(snap[p]) \cup {<< req[p].source, req[p].target >>}

\* att(source 0, target 1) was accepted and att(source 1, target 2) with the
\* same signing root is accepted and recorded after it.
C11_Witness ==
  \E p \in Attesting :
    /\ req[p].source = 1 /\ req[p].target = 2
    /\ Earlier(req[p].key) =
         {[req[p] EXCEPT !.source = 0, !.target = 1]}
    /\ Admissible(snap[p], req[p])
    /\ ret[p].check = "NotSlashable"
    /\ Written(db[req[p].key], req[p])

\* The callers whose CheckProposal is about to return the result of its rules.
Proposing ==
  { p \in Procs :
      /\ pc[p] = "Release"
      /\ req[p].op = "CheckProposal"
      /\ ret[p].err = "nil" }

\* C12: the lowest-source rule refuses an attestation exactly when its source
\* is strictly below the lowest signed source (a source equal to it is not
\* refused by that rule); an attestation whose target equals the lowest signed
\* target, with a root differing from the recorded one, is refused by a
\* watermark rule, and a proposal whose slot equals the lowest signed slot,
\* with a root differing from the recorded one, is Slashable.
C12_Boundaries ==
  /\ \A p \in Attesting :
       LET lowS == LowestSignedSourceEpoch(snap[p])
           lowT == LowestSignedTargetEpoch(snap[p])
       IN  /\ ret[p].check = "LowestSourceEpoch" <=>
                (lowS.exists /\ req[p].source < lowS.value)
           /\ ( /\ lowT.exists /\ req[p].target = lowT.value
                /\ snap[p].signingRoots[req[p].target] # req[p].signingRoot )
              => ret[p].check \in {"LowestSourceEpoch", "LowestTargetEpoch"}
  /\ \A p \in Proposing :
       LET low == LowestSignedProposal(snap[p])
       IN  ( /\ low.exists /\ req[p].slot = low.value
             /\ snap[p].proposals[req[p].slot] # req[p].signingRoot )
           => ret[p].check \in {"DoubleProposal", "LowestSignedSlot"}

\* An attestation whose source equals the lowest signed source and whose
\* target equals the lowest signed target, with a root differing from the
\* recorded one, is refused by the lowest-target rule, not by the
\* lowest-source rule.
C12_Witness ==
  \E p \in Attesting :
    LET lowS == LowestSignedSourceEpoch(snap[p])
        lowT == LowestSignedTargetEpoch(snap[p])
    IN  /\ lowS.exists /\ req[p].source = lowS.value
        /\ lowT.exists /\ req[p].target = lowT.value
        /\ snap[p].signingRoots[req[p].target] # req[p].signingRoot
        /\ ret[p].check = "LowestTargetEpoch"

\* C13: an operation on one (network, pubKey) pair leaves the database of
\* every other pair unchanged, and its verdict is the verdict of the rules on
\* the history made by the operations on its own pair alone; so a message is
\* NotSlashable on a pair without history whatever the other pairs hold, and
\* the same message submitted for two public keys, or for one public key on
\* two networks, is NotSlashable for both.
C13_PairsIsolated ==
  /\ [] (\A p \in Procs :
           (pc[p] = "Release" /\ req[p].op \in Checks /\ ret[p].err = "nil")
           => /\ snap[p] = serial[req[p].key]
              /\ ret[p].check = Verdict(serial[req[p].key], req[p])
              /\ accepted[req[p].key] = {} => ret[p].check = "NotSlashable")
  /\ [][ \A k \in AllKeys :
           db'[k] # db[k] =>
             \E p \in Procs :
               /\ pc[p] # "Release" /\ pc'[p] = "Release"
               /\ req'[p].key = k ]_vars

\* A message with the all-zero root that was accepted on one pair is accepted
\* on another pair (it would be refused on the first), and the database of
\* the first pair is as the first operation left it.
C13_Witness ==
  \E p \in Procs, j \in AllKeys :
    /\ pc[p] = "Release"
    /\ req[p].key # j
    /\ PubKey(req[p].key) # PubKey(j) \/ Network(req[p].key) # Network(j)
    /\ req[p].signingRoot = ZeroHash
    /\ accepted[j] = {[req[p] EXCEPT !.key = j]}
    /\ ret[p].check = "NotSlashable"
    /\ Verdict(db[j], [req[p] EXCEPT !.key = j]) # "NotSlashable"
    /\ db[j] = serial[j]

\* C14: once an operation has returned NotSlashable, its record is in the
\* database of the key for every later operation on the key (the records of
\* the accepted requests are in the database in every state, and in the
\* database a later operation reads), also after the store was closed on
\* release and reopened, and after Pool.Close and a new pool on the
\* directory; a later message that conflicts with an accepted one is
\* returned Slashable.
C14_AcceptedStays ==
  /\ \A k \in AllKeys : \A a \in accepted[k] : Written(db[k], a)
  /\ \A p \in Procs :
       (pc[p] = "Release" /\ req[p].op \in Checks /\ ret[p].err = "nil") =>
         /\ \A a \in accepted[req[p].key] : Written(snap[p], a)
         /\ (\E a \in accepted[req[p].key] : Conflict(a, req[p])) =>
              ret[p].check \notin {"nil", "NotSlashable"}

\* In the second pool opened on the directory, the second call carries a
\* message that conflicts with the one accepted through the first pool, and
\* is about to be returned Slashable.
C14_Witness ==
  \E p \in Procs :
    /\ pools = << 0, 1 >>
    /\ nCalls = 2
    /\ pc[p] = "Release"
    /\ \E a \in accepted[req[p].key] :
         Conflict(a, req[p]) /\ Written(snap[p], a)
    /\ ret[p].check \notin {"nil", "NotSlashable"}

\* C15: Conn.Release on a handle that is not acquired (never acquired, or
\* released before) returns the "connection not acquired" error as a value
\* and does not panic.
C15_ReleaseReturnsError ==
  \A p \in Procs :
    (req[p].op = "Release" /\ pc[p] \in {"returned", "panic"}) =>
      /\ pc[p] = "returned"
      /\ ret[p].err = "connection not acquired"

\* C16: Pool.Close called when no handle is outstanding returns no error and
\* does not panic, leaves every store closed, and empties the pool map, so
\* that AcquiredConns is 0.
C16_CloseClean ==
  \A p \in Procs :
    (req[p].op = "Close" /\ pc[p] \in {"returned", "panic"}) =>
      /\ pc[p] = "returned"
      /\ ret[p].err = "nil"
      /\ \A k \in AllKeys : store[k] = "nil"
      /\ conn = {}
      /\ AcquiredConns = 0

\* The callers that have the permit of key k: from the grant of
\* c.semaphore.Acquire to the c.semaphore.Release of the operation.
Permitted(k) ==
  { p \in AllProcs :
      pc[p] \in {"NewKVStore", "check", "save", "Release"} /\ req[p].key = k }

\* The callers in the queue of waiters of key k.
Waiting(k) == { semWaiters[k][i] : i \in 1..Len(semWaiters[k]) }

\* C17: when the context of a caller is cancelled while its Acquire waits for
\* the permit, Acquire fails: the operation returns the "kvpool.Acquire" error
\* and no check, the caller holds no permit and is no longer a waiter, the
\* permits taken are those of the callers that were granted one, and no
\* database changes.
C17_CancelledWaiter ==
  /\ [] (\A k \in AllKeys :
           /\ semCur[k] = Cardinality(Permitted(k))
           /\ Waiting(k) =
                { p \in AllProcs : pc[p] = "waiting" /\ req[p].key = k }
           /\ Waiting(k) \cap Permitted(k) = {})
  /\ [][ \A p \in Procs :
           (pc[p] = "waiting" /\ pc'[p] \notin {"waiting", "NewKVStore"}) =>
             /\ pc'[p] = "idle"
             /\ ret'[p] = [NoResult EXCEPT !.err = "kvpool.Acquire"]
             /\ db' = db
             /\ semCur' = semCur
             /\ \A k \in AllKeys : Permitted(k)' = Permitted(k)
             /\ \A k \in AllKeys : p \notin Waiting(k)' ]_vars

\* A caller has the cancellation error of its Acquire while the caller it
\* waited for still holds the handle, and nobody waits.
C17_Witness ==
  \E p, q \in Procs :
    /\ pc[p] = "idle"
    /\ ret[p] = [NoResult EXCEPT !.err = "kvpool.Acquire"]
    /\ q \in Holders(req[q].key)
    /\ semCur[req[q].key] = 1
    /\ semWaiters[req[q].key] = <<>>

\* C18: with workers concurrently submitting CheckAttestation requests over
\* shared pairs, no cancellation, no failing store call, and every worker
\* that can take a step eventually taking one, every request eventually has
\* a verdict and no error, and returns (no request waits forever); and in
\* every state, hence in the last, the accepted attestations of each pair
\* hold no double vote and no surround, and are what the database records.
C18_EveryRequestReturns ==
  /\ \A p \in AllProcs :
       /\ (pc[p] # "idle") ~>
            ( /\ pc[p] = "Release" /\ ret[p].err = "nil"
              /\ ret[p].check \notin {"nil", "History"} )
       /\ (pc[p] = "Release") ~> (pc[p] = "idle")
  /\ [] (\A k \in AllKeys :
           /\ \A a, b \in AcceptedAttestations(k) :
                /\ a.target = b.target => a.signingRoot = b.signingRoot
                /\ ~ IsSurround(a.source, a.target, b.source, b.target)
           /\ Holders(k) = {} =>
                AttestationHistoryForPubKey(db[k]) =
                  { << a.source, a.target, a.signingRoot >> :
                      a \in AcceptedAttestations(k) })

\* A worker whose request was in flight while the requests of the two other
\* workers were accepted on its pair is about to return a verdict, and the
\* two others have returned.
C18_Witness ==
  \E p \in AllProcs :
    /\ pc[p] = "Release"
    /\ ret[p].err = "nil"
    /\ ret[p].check # "nil"
    /\ Cardinality(seen[p]) = 2
    /\ \A q \in AllProcs \ {p} : pc[q] = "idle"

C20_OtherPairsDoNotBlock ==
  /\ [] (\A p \in AllProcs :
           pc[p] = "waiting" => Permitted(req[p].key) \ {p} # {})
  /\ [][ \A p \in AllProcs :
           (pc[p] = "acquire" /\ pc'[p] = "waiting") =>
             Permitted(req[p].key) # {} ]_vars
  /\ (pc[Runner] \in {"acquire", "waiting", "NewKVStore"}) ~>
       \/ Runner \in Holders(req[Runner].key)
       \/ Permitted(req[Runner].key) \ {Runner} # {}

\* Two callers hold the handles of two different pairs at the same time: one
\* has saved its attestation and not yet released, the other has acquired
\* its handle and is at its rules.
C20_Witness ==
  \E q \in AllProcs \ {Runner} :
    /\ pc[Runner] = "check"
    /\ pc[q] = "Release"
    /\ req[q].key # req[Runner].key
    /\ snap[Runner] = EmptyStore
    /\ db[req[q].key] # EmptyStore

\* Text t occurs in text s.
Contains(s, t) ==
  \E i \in 1..(Len(s) - Len(t) + 1) : SubSeq(s, i, i + Len(t) - 1) = t

\* The lone caller's last CheckAttestation or CheckProposal has its results:
\* it is about to return them, or it has returned them.
Decided ==
  /\ pc[Lone] \in {"Release", "idle"}
  /\ req[Lone].op \in Checks

\* A store read, the slashing check or the save of that call failed.
DecisionFailed ==
  Contains(ret[Lone].err, "store") \/ Contains(ret[Lone].err, "save")

\* C21: when a store read, the slashing check or the save fails during
\* CheckAttestation or CheckProposal, the operation returns a non-nil error
\* and a nil verdict; a NotSlashable verdict is returned only for a message
\* whose record is in the database.
C21_FailureReturnsError ==
  Decided =>
    /\ DecisionFailed => ret[Lone].check = "nil" /\ ret[Lone].err # "nil"
    /\ ret[Lone].check = "NotSlashable" =>
         Written(db[req[Lone].key], req[Lone])

\* A CheckAttestation whose save failed has returned (nil, err) and its
\* message is not in the database.
C21_Witness ==
  /\ pc[Lone] = "idle"
  /\ req[Lone].op = "CheckAttestation"
  /\ Contains(ret[Lone].err, "save")
  /\ ret[Lone].check = "nil"
  /\ ~ Written(db[req[Lone].key], req[Lone])

\* C22: when Conn.Release fails at the end of CheckAttestation, CheckProposal
\* or History, the operation returns a non-nil error that contains the
\* release error, also when the decision succeeded, and that contains the
\* decision's error as well when the decision failed; the check is returned
\* as decided.
C22_ReleaseErrorKept ==
  [][ ( /\ pc[Lone] = "Release"
        /\ pc'[Lone] = "idle"
        /\ store'[req[Lone].key] = "closeFailed" )
      => /\ ret'[Lone].err # "nil"
         /\ Contains(ret'[Lone].err, "kv.Store.Close")
         /\ ret[Lone].err # "nil" => Contains(ret'[Lone].err, ret[Lone].err)
         /\ ret'[Lone].check = ret[Lone].check ]_vars

\* A CheckProposal whose save failed and whose release failed has returned
\* an error that names both failures.
C22_Witness ==
  /\ pc[Lone] = "idle"
  /\ req[Lone].op = "CheckProposal"
  /\ store[req[Lone].key] = "closeFailed"
  /\ Contains(ret[Lone].err, "kv.Store.Close")
  /\ Contains(ret[Lone].err, "save")

\* The lone caller's CheckAttestation was given data with a nil source or
\* target checkpoint and has read it.
NilChecked ==
  /\ req[Lone].op = "CheckAttestation"
  /\ req[Lone].source = NilCheckpoint \/ req[Lone].target = NilCheckpoint

\* C23: CheckAttestation called with attestation data whose source or target
\* checkpoint is nil does not panic: it returns an InvalidInput error and no
\* check, with the pair's history as it was when the permit was granted, and
\* once it has returned the pair's permit is free.
C23_NilCheckpointRejected ==
  NilChecked =>
    /\ pc[Lone] \notin {"panicking", "panic"}
    /\ pc[Lone] \in {"Release", "idle"} =>
         /\ Contains(ret[Lone].err, "InvalidInput")
         /\ ret[Lone].check = "nil"
    /\ pc[Lone] = "Release" => db[req[Lone].key] = snap[Lone]
    /\ pc[Lone] = "idle" => semCur[req[Lone].key] = 0

\* C24: a proposal request with slot 0 is answered with status_code 400, an
\* error and no check, and the decision engine is not called for it: no
\* call is counted, no Conn is created, no permit is taken, no store is
\* opened and no database is written.
C24_GenesisSlotRefused ==
  [][ ( /\ rpc.stage = "request"
        /\ rpc.op = "CheckProposal"
        /\ rpc.body.block = 0
        /\ rpc'.stage = "response" )
      => /\ rpc'.resp.status_code = 400
         /\ rpc'.resp.error # ""
         /\ rpc'.resp.check = "nil"
         /\ UNCHANGED << nCalls, conn, semCur, store, db >> ]_vars

\* The server has answered a proposal request for slot 0, the first request
\* it received, with status_code 400; the engine was never called.
C24_Witness ==
  /\ rpc.stage = "response"
  /\ rpc.op = "CheckProposal"
  /\ rpc.body.block = 0
  /\ ~ rpc.corrupted
  /\ rpc.resp.status_code = 400
  /\ rpc.resp.error = "can not propose at genesis slot"
  /\ nCalls = 0
  /\ conn = {}

\* C25: the HTTP client's CheckAttestation and CheckProposal return a check
\* only when the hash of the response equals the hash the client computed
\* for its request; for every response with another hash they return an
\* error and no check.
C25_HashChecked ==
  [][ (rpc.stage = "response" /\ rpc'.stage = "idle")
      => /\ rpc'.out.check # "nil" =>
              /\ rpc.resp.hash = rpc.hash
              /\ rpc'.out.check = rpc.resp.check
         /\ rpc.resp.hash # rpc.hash =>
              /\ rpc'.out.check = "nil"
              /\ rpc'.out.err # "nil" ]_vars

\* The client has returned the mismatching-hash error for a response that
\* carried a NotSlashable check, no error, and another hash than its own.
C25_Witness ==
  /\ rpc.stage = "idle"
  /\ rpc.resp.error = ""
  /\ rpc.resp.check = "NotSlashable"
  /\ rpc.resp.hash # rpc.hash
  /\ rpc.out.err = "mismatching hash"
  /\ rpc.out.check = "nil"

\* The hash the client computes for the request of its call.
ClientHash ==
  IF rpc.op = "CheckProposal"
  THEN checkProposalRequestHash(rpc.request)
  ELSE checkAttestationRequestHash(rpc.request)

RootDiffers(h, r) ==
  \/ r.target \notin DOMAIN h.signingRoots
  \/ h.signingRoots[r.target] = ZeroHash
  \/ h.signingRoots[r.target] # r.signingRoot

BelowLowestSource(h, r) ==
  h.lowestSource.exists /\ r.source < h.lowestSource.value

AtOrBelowLowestTarget(h, r) ==
  RootDiffers(h, r) /\ h.lowestTarget.exists /\ r.target <= h.lowestTarget.value

IsDoubleVote(h, r) == r.target \in DOMAIN h.signingRoots /\ RootDiffers(h, r)

IsSurrounding(h, r) ==
  \E st \in h.attested : r.source < st[1] /\ st[2] < r.target

IsSurrounded(h, r) ==
  \E st \in h.attested : st[1] < r.source /\ r.target < st[2]

\* The reason of the first rule, in the order of the claim, that fires.
FirstRule(h, r) ==
  IF BelowLowestSource(h, r) THEN "LowestSourceEpoch"
  ELSE IF AtOrBelowLowestTarget(h, r) THEN "LowestTargetEpoch"
  ELSE IF IsDoubleVote(h, r) THEN "DoubleVote"
  ELSE IF IsSurrounding(h, r) THEN "SurroundingVote"
  ELSE IF IsSurrounded(h, r) THEN "SurroundedVote"
  ELSE "NotSlashable"

\* C27: CheckAttestation returns the reason of the first rule that fires in
\* the order lowest source, lowest target, then double vote, surrounding,
\* surrounded, whatever later rules would say, and a refusal records nothing;
\* an attestation that passes the lowest-source rule and repeats the lowest
\* signed target epoch with a different root is refused under the
\* lowest-target rule, and the double-vote reason is returned only for a
\* target epoch above the lowest signed target.
C27_RulesInOrder ==
  \A p \in Attesting :
    LET h == snap[p]
        r == req[p]
    IN  /\ ret[p].check = FirstRule(h, r)
        /\ ret[p].check # "NotSlashable" => db[r.key] = h
        /\ ( /\ ~ BelowLowestSource(h, r)
             /\ h.lowestTarget.exists
             /\ r.target = h.lowestTarget.value
             /\ h.signingRoots[r.target] # r.signingRoot )
           => ret[p].check = "LowestTargetEpoch"
        /\ ret[p].check = "DoubleVote" =>
             h.lowestTarget.exists /\ r.target > h.lowestTarget.value

\* att(0, 1) with root 1 was accepted alone, and att(0, 1) with root 2, which
\* the store would report as a double vote, is refused under the
\* lowest-target rule.
C27_Witness ==
  \E p \in Attesting :
    /\ Earlier(req[p].key) =
         {[req[p] EXCEPT !.signingRoot = 1, !.source = 0, !.target = 1]}
    /\ req[p].signingRoot = 2 /\ req[p].source = 0 /\ req[p].target = 1
    /\ IsDoubleVote(snap[p], req[p])
    /\ ret[p].check = "LowestTargetEpoch"
    /\ db[req[p].key] = snap[p]

\* The root of proposal r differs from the one recorded at its slot: none is
\* recorded there, the recorded one is all zeros, or the two are different
\* values.
ProposalRootDiffers(h, r) ==
  \/ r.slot \notin DOMAIN h.proposals
  \/ h.proposals[r.slot] = ZeroHash
  \/ h.proposals[r.slot] # r.signingRoot

IsDoubleProposal(h, r) ==
  r.slot \in DOMAIN h.proposals /\ ProposalRootDiffers(h, r)

AtOrBelowLowestSlot(h, r) ==
  /\ h.lowestProposal.exists
  /\ ProposalRootDiffers(h, r)
  /\ h.lowestProposal.value >= r.slot

\* The lowest signed slot after slot was signed on top of watermark mark.
MinSlot(mark, slot) ==
  IF mark.exists /\ mark.value <= slot THEN mark.value ELSE slot

\* C28: CheckProposal returns the double-proposal reason exactly when a
\* proposal is recorded at the slot and the roots differ; otherwise the
\* lowest-signed-slot reason exactly when a lowest signed slot is recorded,
\* the roots differ and the lowest signed slot is not below the slot;
\* otherwise NotSlashable, and then the root recorded at the slot is the
\* signing root and the lowest signed slot is the minimum of its previous
\* value, if any, and the slot.
C28_ProposalRules ==
  \A p \in Proposing :
    LET h == snap[p]
        r == req[p]
        after == db[r.key]
    IN  /\ ret[p].check = "DoubleProposal" <=> IsDoubleProposal(h, r)
        /\ ret[p].check = "LowestSignedSlot" <=>
             (~ IsDoubleProposal(h, r) /\ AtOrBelowLowestSlot(h, r))
        /\ ret[p].check = "NotSlashable" <=>
             (~ IsDoubleProposal(h, r) /\ ~ AtOrBelowLowestSlot(h, r))
        /\ ret[p].check = "NotSlashable" =>
             /\ r.slot \in DOMAIN after.proposals
             /\ after.proposals[r.slot] = r.signingRoot
             /\ after.lowestProposal.exists
             /\ after.lowestProposal.value = MinSlot(h.lowestProposal, r.slot)

\* After accepted proposals at slots 0 and 1, which left the lowest signed
\* slot at 0, a proposal at slot 0 with another root is refused as a double
\* proposal though the lowest-signed-slot rule would refuse it too.
C28_Witness ==
  \E p \in Proposing :
    /\ \E a, b \in Earlier(req[p].key) :
         /\ a.op = "CheckProposal" /\ a.slot = 0 /\ a.signingRoot = 1
         /\ b.op = "CheckProposal" /\ b.slot = 1
    /\ snap[p].lowestProposal = Present(0)
    /\ req[p].slot = 0 /\ req[p].signingRoot = 2
    /\ AtOrBelowLowestSlot(snap[p], req[p])
    /\ ret[p].check = "DoubleProposal"

\* C29: when the root recorded at the slot of a proposal is all zeros, the
\* proposal is refused as a double proposal whatever its signing root, the
\* all-zero one included; when the root recorded at the target epoch of an
\* attestation is all zeros, the attestation is refused whatever its signing
\* root: under the lowest-target rule if its target is not above the lowest
\* signed target, as a double vote otherwise, unless the lowest-source rule
\* refused it first.  Neither records anything.
C29_ZeroRootUnknown ==
  /\ \A p \in Proposing :
       LET h == snap[p]
           r == req[p]
       IN  (r.slot \in DOMAIN h.proposals /\ h.proposals[r.slot] = ZeroHash)
           => /\ ret[p].check = "DoubleProposal"
              /\ db[r.key] = h
  /\ \A p \in Attesting :
       LET h == snap[p]
           r == req[p]
       IN  ( /\ r.target \in DOMAIN h.signingRoots
             /\ h.signingRoots[r.target] = ZeroHash )
           => /\ ret[p].check =
                   IF h.lowestSource.exists /\ r.source < h.lowestSource.value
                   THEN "LowestSourceEpoch"
                   ELSE IF r.target <= h.lowestTarget.value
                   THEN "LowestTargetEpoch"
                   ELSE "DoubleVote"
              /\ db[r.key] = h

\* Attestations with targets 0 and 1 were accepted, the second with the
\* all-zero root, and an attestation with target 1 and the all-zero root is
\* refused as a double vote.
C29_Witness ==
  \E p \in Attesting :
    /\ req[p].target = 1 /\ req[p].signingRoot = ZeroHash
    /\ req[p] \in Earlier(req[p].key)
    /\ snap[p].signingRoots[1] = ZeroHash
    /\ snap[p].lowestTarget = Present(0)
    /\ ret[p].check = "DoubleVote"
    /\ db[req[p].key] = snap[p]

\* The callers inside an operation on key k that have taken the permit and
\* have not yet run the deferred release (or the give-back of a failed open).
HoldingPermit(k) ==
  { p \in AllProcs :
      /\ pc[p] \in {"NewKVStore", "check", "save", "Release", "panicking"}
      /\ req[p].key = k }

\* Every permit taken is held by exactly one call that has not returned:
\* no call returns with its permit, none gives it back twice.
PermitsMatchHolders ==
  \A k \in AllKeys : semCur[k] = Cardinality(HoldingPermit(k))

\* Every call has returned or has ended in a panic.
AllReturned == \A p \in AllProcs : pc[p] \in {"idle", "panic"}

\* C30: every CheckAttestation, CheckProposal and History call that acquired
\* a handle releases it exactly once before it returns, whether it returns
\* NotSlashable, Slashable or a store error or ends in a panic; once all
\* calls have returned no permit is held and AcquiredConns is 0.
C30_HandleReleased ==
  /\ PermitsMatchHolders
  /\ AllReturned =>
       /\ \A k \in AllKeys : semCur[k] = 0 /\ semWaiters[k] = <<>>
       /\ AcquiredConns = 0

\* The permit of key k is free for the next Acquire, or was handed to a
\* caller that is about to open the store: nobody waits for a permit that no
\* call holds.
PermitNotLost(k) ==
  /\ semCur[k] = Cardinality(HoldingPermit(k))
  /\ semWaiters[k] # <<>> => HoldingPermit(k) # {}

\* C31: when the open of the store fails inside Pool.Acquire after the permit
\* was granted, the operation returns the Acquire error and no result, the
\* handle's store is left as it was, and the permit is free again: it goes to
\* the first waiter of the key if there is one and is free otherwise, so a
\* later Acquire on the key is not blocked by the failed one.
C31_FailedOpenFreesPermit ==
  [][ \A p \in Procs :
        (pc[p] = "NewKVStore" /\ pc'[p] = "idle") =>
          LET k == req[p].key IN
          /\ ret'[p].err = "kvpool.Acquire: kv.NewKVStore"
          /\ ret'[p].check = "nil"
          /\ store' = store /\ db' = db
          /\ IF semWaiters[k] = <<>>
             THEN semCur'[k] = 0
             ELSE /\ semCur'[k] = 1
                  /\ pc'[Head(semWaiters[k])] = "NewKVStore"
                  /\ semWaiters'[k] = Tail(semWaiters[k])
          /\ PermitNotLost(k)' ]_vars

\* A caller has the error of an Acquire whose open failed, and the caller
\* that waited behind it holds the handle of the key with the store open.
C31_Witness ==
  \E p, q \in Procs :
    /\ p # q
    /\ pc[p] = "idle" /\ ret[p].err = OpenError
    /\ pc[q] = "check" /\ req[q].key = req[p].key
    /\ store[req[q].key] = "open"
    /\ semCur[req[q].key] = 1

\* C32: a Release whose close of the store fails returns the close error and
\* still frees the permit of the key (it goes to the first waiter, or is
\* free); an Acquire on the key that opens the store after it holds the
\* permit with an open store.
C32_FailedCloseFreesPermit ==
  [][ \A p \in Procs :
        LET k == req[p].key IN
        /\ ( /\ pc[p] = "Release" /\ pc'[p] = "idle"
             /\ store'[k] = "closeFailed" )
           => /\ Contains(ret'[p].err, "kv.Store.Close: close")
              /\ IF semWaiters[k] = <<>>
                 THEN semCur'[k] = 0
                 ELSE /\ semCur'[k] = 1
                      /\ pc'[Head(semWaiters[k])] = "NewKVStore"
                      /\ semWaiters'[k] = Tail(semWaiters[k])
              /\ PermitNotLost(k)'
        /\ (pc[p] = "NewKVStore" /\ pc'[p] = "check")
           => /\ store'[k] = "open"
              /\ semCur'[k] = 1
              /\ HoldingPermit(k)' = {p} ]_vars

\* A caller has the close error of its Release, and the caller that waited
\* behind it holds the handle of the key with the store open again.
C32_Witness ==
  \E p, q \in Procs :
    /\ p # q
    /\ pc[p] = "idle" /\ Contains(ret[p].err, "kv.Store.Close: close")
    /\ pc[q] = "check" /\ req[q].key = req[p].key
    /\ store[req[q].key] = "open"
    /\ semCur[req[q].key] = 1

\* The keys whose handle some caller holds: acquired, with the store open,
\* and not yet released.
HandlesHeld ==
  { k \in AllKeys :
      \E p \in AllProcs :
        pc[p] \in {"check", "save", "Release"} /\ req[p].key = k }

\* C33: in every reachable state, also after failed opens and failed closes
\* of the store, Pool.AcquiredConns is the number of handles that are
\* acquired and not yet released: a key is counted only while its permit is
\* held with its store open, and the count is 0 when every handle has been
\* released.
C33_AcquiredConnsCounts ==
  /\ AcquiredConns = Cardinality(HandlesHeld)
  /\ \A k \in conn :
       store[k] # "nil" => (semCur[k] = 1 /\ store[k] = "open")
  /\ HandlesHeld = {} => AcquiredConns = 0

\* C34: the store is opened with the lifetime context of the handle, never
\* with the context of the request; in Conn.Release the lifetime context is
\* cancelled only after the close of the store has returned, and the permit
\* is released only after both; so the worker of an open store runs on,
\* whatever request context is cancelled.
C34_LifetimeContext ==
  [][ \A p \in Procs :
        LET k == req[p].key IN
        /\ (pc[p] = "NewKVStore" /\ pc'[p] = "check")
           => /\ life'.boundTo[k] = "lifetime"
              /\ life'.ctx[k] = "live"
              /\ life'.worker[k] = "running"
        /\ (life.ctx[k] = "live" /\ life'.ctx[k] = "cancelled")
           => /\ store[k] # "open" /\ store'[k] # "open"
              /\ semCur[k] = 1 /\ semCur'[k] = 1
              /\ semWaiters'[k] = semWaiters[k]
        /\ (pc[p] \in {"Release", "cancelStoreCtx", "semaphoreRelease"}
              /\ pc'[p] = "idle")
           => /\ store[k] # "open"
              /\ life.ctx[k] = "cancelled"
        /\ (life.request[p] = "live" /\ life'.request[p] = "cancelled")
           => /\ life'.worker = life.worker
              /\ life'.ctx = life.ctx
        /\ store'[k] = "open" => life'.worker[k] = "running" ]_vars

\* A caller whose request context was cancelled holds the handle with the
\* store open and its worker running, and is about to save.
C34_Witness ==
  \E p \in Procs :
    /\ pc[p] = "save"
    /\ life.request[p] = "cancelled"
    /\ store[req[p].key] = "open"
    /\ life.worker[req[p].key] = "running"
    /\ life.ctx[req[p].key] = "live"

\* C35: the pool mutex is held for the lookup and the insert in the pool map
\* only: a caller that has locked it opens no store, closes no store and
\* begins no wait for a permit before it has unlocked it.
C35_MutexOnlyForMap ==
  [][ \A c \in Procs :
        (poolMu = c /\ pc'[c] # pc[c]) =>
          /\ store' = store
          /\ life'.worker = life.worker
          /\ pc'[c] # "waiting" ]_vars

\* The least number of a non-empty set of numbers.
MinOf(S) == CHOOSE m \in S : \A x \in S : m <= x

\* Watermark mark is the minimum of the values S: absent when there is none.
MarkIsMinOf(mark, S) ==
  IF S = {} THEN ~mark.exists ELSE mark = Present(MinOf(S))

\* Each watermark of each key is the minimum over the accepted values.
WatermarksAreMinima ==
  \A k \in Keys :
    /\ MarkIsMinOf(LowestSignedSourceEpoch(db[k]),
                   { a.source : a \in AcceptedAttestations(k) })
    /\ MarkIsMinOf(LowestSignedTargetEpoch(db[k]),
                   { a.target : a \in AcceptedAttestations(k) })
    /\ MarkIsMinOf(LowestSignedProposal(db[k]),
                   { a.slot : a \in AcceptedProposals(k) })

\* Watermark after is a later value of watermark before: still present if
\* before was, and not higher.
Descends(before, after) ==
  before.exists => (after.exists /\ after.value <= before.value)

\* C36: in every reachable state each watermark of a key is the minimum over
\* the accepted values (lowest source epoch, lowest target epoch, lowest
\* proposal slot; absent while nothing was accepted), and in every step a
\* watermark that is present stays present and does not increase.
C36_WatermarksAreMinima ==
  [][ /\ WatermarksAreMinima
      /\ WatermarksAreMinima'
      /\ \A k \in Keys :
           /\ Descends(LowestSignedSourceEpoch(db[k]),
                       LowestSignedSourceEpoch(db'[k]))
           /\ Descends(LowestSignedTargetEpoch(db[k]),
                       LowestSignedTargetEpoch(db'[k]))
           /\ Descends(LowestSignedProposal(db[k]),
                       LowestSignedProposal(db'[k])) ]_vars

\* A second attestation with a higher target epoch than the first accepted
\* one was saved and is about to be returned NotSlashable: the lowest target
\* epoch is still that of the first.
C36_Witness ==
  \E p \in Procs, a \in accepted["k1"] :
    /\ pc[p] = "Release"
    /\ req[p].key = "k1"
    /\ req[p].op = "CheckAttestation"
    /\ ret[p].check = "NotSlashable"
    /\ a.op = "CheckAttestation"
    /\ a.target < req[p].target
    /\ LowestSignedTargetEpoch(db["k1"]) = Present(a.target)

\* The callers that have read the dump of History and are about to release
\* the handle and return it.
DumpRead == { p \in Procs : /\ pc[p] = "Release"
                            /\ req[p].op = "History"
                            /\ ret[p].err = "nil" }

\* The callers of History that hold the handle: at the read or after it.
Dumping ==
  { p \in Procs : pc[p] \in {"check", "Release"} /\ req[p].op = "History" }

\* The dump of the calls on key k that returned NotSlashable so far.
AcceptedDump(k) ==
  [ Proposals    |-> { << a.slot, a.signingRoot >> :
                         a \in { b \in Earlier(k) : b.op = "CheckProposal" } },
    Attestations |-> { << a.source, a.target, a.signingRoot >> :
                         a \in { b \in Earlier(k) : b.op = "CheckAttestation" } } ]

\* The dump a History call returns is that of the accepted messages, and the
\* call holds the only permit of the key alone from before the read to the
\* release, on the database as it was when the permit was granted.
DumpIsAccepted ==
  /\ \A p \in DumpRead : ret[p].history = AcceptedDump(req[p].key)
  /\ \A p \in Dumping :
       /\ semCur[req[p].key] = 1
       /\ Holders(req[p].key) = {p}
       /\ \A q \in Procs \ {p} : req[q].key = req[p].key => pc[q] # "save"
       /\ snap[p] = db[req[p].key]

\* C37: History returns exactly the proposals and attestations accepted so
\* far for the key; no step of a History call changes the database of any
\* key (no recorded root, no watermark); and the call holds the permit of
\* the key alone for the whole read, so that no other operation on the key
\* is between its reads and its write while History reads.
C37_HistoryReadsAccepted ==
  [][ /\ DumpIsAccepted
      /\ DumpIsAccepted'
      /\ \A p \in Procs :
           (req[p].op = "History" /\ pc[p] # "idle" /\ pc'[p] # pc[p]) =>
             db' = db ]_vars

\* A History call that waited for a CheckAttestation of another caller on
\* the key has read the dump: it holds the attestation that was accepted in
\* the meantime.
C37_Witness ==
  \E p \in DumpRead :
    /\ seen[p] # {}
    /\ ret[p].history.Attestations # {}
    /\ ret[p].history = HistoryOf(db[req[p].key])

\* The lone caller's call that begins in this step is returned NotSlashable.
AcceptedNow ==
  /\ pc[Lone] = "idle"
  /\ pc'[Lone] = "Release"
  /\ ret'[Lone].check = "NotSlashable"

\* Value v is not below watermark mark (no watermark, no bound).
NotBelow(mark, v) == mark.exists => v >= mark.value

\* C38: a watermark of a key that is present never changes again (the lowest
\* source and target epochs after the first accepted attestation, the lowest
\* slot after the first accepted proposal): every message accepted later has
\* a source epoch, target epoch or slot that is not below the watermark, so
\* that its save does not refresh the watermark.
C38_WatermarksFixedByFirst ==
  [][ \A k \in Keys :
        LET h == db[k] IN
        /\ LowestSignedSourceEpoch(h).exists =>
             LowestSignedSourceEpoch(db'[k]) = LowestSignedSourceEpoch(h)
        /\ LowestSignedTargetEpoch(h).exists =>
             LowestSignedTargetEpoch(db'[k]) = LowestSignedTargetEpoch(h)
        /\ LowestSignedProposal(h).exists =>
             LowestSignedProposal(db'[k]) = LowestSignedProposal(h)
        /\ (AcceptedNow /\ req'[Lone].key = k) =>
             IF req'[Lone].op = "CheckAttestation"
             THEN /\ NotBelow(LowestSignedSourceEpoch(h), req'[Lone].source)
                  /\ NotBelow(LowestSignedTargetEpoch(h), req'[Lone].target)
             ELSE NotBelow(LowestSignedProposal(h), req'[Lone].slot) ]_vars

\* After an accepted attestation, a second one with a higher source epoch
\* and a higher target epoch was accepted and saved: the two watermarks are
\* those of the first.
C38_Witness ==
  \E a \in accepted["k1"] :
    /\ a.op = "CheckAttestation"
    /\ pc[Lone] = "Release"
    /\ req[Lone].op = "CheckAttestation"
    /\ ret[Lone].check = "NotSlashable"
    /\ a.source < req[Lone].source
    /\ a.target < req[Lone].target
    /\ Written(db["k1"], req[Lone])
    /\ LowestSignedSourceEpoch(db["k1"]) = Present(a.source)
    /\ LowestSignedTargetEpoch(db["k1"]) = Present(a.target)

\* The callers that hold the handle of key k inside CheckProposal: from the
\* return of Pool.Acquire to the deferred release.
HandleHolders(k) ==
  { p \in Procs : /\ req[p].op = "CheckProposal"
                  /\ req[p].key = k
                  /\ pc[p] \in {"check", "save", "Release", "panicking"} }

\* No caller has called Conn.Release on a handle it has not acquired.
NoStrayRelease == \A c \in Procs : req[c].op # "Release"

\* C39: Pool.Close beside an operation that holds a handle leaves the store
\* and the permit of that handle alone: the step of Pool.Close that releases
\* the Conns changes neither the store nor the permit count of a key whose
\* handle is held, a holder at its reads or its write has an open store, and
\* a key has at most one holder (no second operation is granted the handle
\* before the holder's Release).
C39_CloseSparesHolders ==
  [][ NoStrayRelease' =>
        /\ \A c \in Procs :
             (pc[c] = "closing" /\ pc'[c] # "closing") =>
               \A k \in Keys :
                 HandleHolders(k) # {} =>
                   store'[k] = store[k] /\ semCur'[k] = semCur[k]
        /\ \A p \in Procs :
             pc'[p] \in {"check", "save"} => store'[req'[p].key] = "open"
        /\ \A k \in Keys : Cardinality(HandleHolders(k)') <= 1 ]_vars

\* C40: Conn.Release by a caller that has not acquired the handle changes no
\* state of the pool: no store is closed, no lifetime context cancelled, no
\* permit freed or handed to a waiter, and the permit count of a key never
\* falls below zero (never more than one permit available).
C40_StrayReleaseChangesNothing ==
  [][ \A c \in Procs :
        (pc[c] = "idle" /\ req'[c].op = "Release") =>
          /\ store' = store
          /\ life' = life
          /\ semCur' = semCur
          /\ semWaiters' = semWaiters
          /\ \A k \in Keys : semCur'[k] >= 0 ]_vars

====
